---- MODULE Spec2Model ----
(***************************************************************************)
(* A model of the object utility library (src/index.ts and the later and   *)
(* earlier revisions of the same file under src/unnamed).                  *)
(*                                                                         *)
(* The library is a set of functions over JavaScript objects, so the      *)
(* state is a heap of objects.  An object has a prototype, a callable      *)
(* kind and an ordered list of own properties, each with its attributes.   *)
(* Every library function is an operator from a heap to a heap, written    *)
(* with the platform primitives the source calls (Object.create,           *)
(* Object.assign, Object.setPrototypeOf, Object.entries, ...), and every   *)
(* exported function is one action: the caller builds its arguments,       *)
(* calls the function and receives the outcome.                            *)
(***************************************************************************)
EXTENDS Integers, Sequences, FiniteSets, TLC

\* heap:  the objects, by address
\* input: the addresses of the arguments the caller has built
\* pc:    where the caller is: "idle" before the call, "closure" while it
\*        holds the function a curried variant returned, "done" after the
\*        call, "invoked" after it has called a callable result
\* call:  the library call made and its outcome
\* inv:   the invocation of a callable result and its outcome
\* log:   the calls received by the functions the caller wrote
\* inserted: the own keys of the first argument, in the order in which they
\*        were created on it
VARIABLES heap, input, pc, call, inv, log, inserted

vars == <<heap, input, pc, call, inv, log, inserted>>

-----------------------------------------------------------------------------
(* Bounds *)

\* largest number of own properties the caller gives an argument
MaxProps == 2

\* largest number of mappings passed to a variadic merge
MaxArgs == 3

-----------------------------------------------------------------------------
(* Keys and values *)

NULL == "null"
UNDEFINED == "undefined"

\* canonical numeric strings ("array index" keys) and their numeric value
IndexKeys == {"1", "2"}
IndexValue == ("1" :> 1) @@ ("2" :> 2)

\* symbol keys
SymbolKeys == {"@s"}

\* ordinary string keys
NameKeys == {"a", "b"}

\* string keys that the platform gives a special meaning on some objects
SpecialKeys == {"prototype", "name", "length", "__proto__"}

StringKeys == IndexKeys \cup NameKeys \cup SpecialKeys

IsIndex(k) == k \in IndexKeys
IsSymbol(k) == k \in SymbolKeys
IsString(k) == ~IsSymbol(k)

\* primitive values
Vals == {"v1", "v2"}

\* the number 0, a value that is falsy and is not null
Zero == "0"

-----------------------------------------------------------------------------
(* Objects *)

DataProp(k, v, e, w) ==
    [key |-> k, value |-> v, enumerable |-> e, writable |-> w, kind |-> "data"]

AccessorProp(k) ==
    [key |-> k, value |-> UNDEFINED, enumerable |-> FALSE, writable |-> FALSE,
     kind |-> "accessor"]

NoProp == [key |-> "", value |-> UNDEFINED, enumerable |-> FALSE,
           writable |-> FALSE, kind |-> "none"]

\* fn: "none" for an object that is not callable, otherwise the kind of
\* function; target: the function a wrapper closes over; body: what a
\* function written by the caller does when it is called
Obj(proto, fn, target, body, props) ==
    [proto |-> proto, fn |-> fn, target |-> target, body |-> body, props |-> props]

PlainObj(proto, props) == Obj(proto, "none", NULL, "", props)

\* the objects of the realm
ObjectPrototype == "Object.prototype"
FunctionPrototype == "Function.prototype"
APrototype == "A.prototype"

Realm ==
    (ObjectPrototype :> PlainObj(NULL, <<AccessorProp("__proto__")>>))
    @@ (FunctionPrototype :> PlainObj(ObjectPrototype, <<>>))
    @@ (APrototype :> PlainObj(ObjectPrototype, <<DataProp("a", "inherited", TRUE, TRUE)>>))

IsObject(h, v) == v \in DOMAIN h

\* fresh addresses the library allocates at
ResultAddr == "result"
TempAddr == "tmp"
MergedAddr == "merged"

\* a call received by a function the caller wrote
CallEntry(f, this, argv) == [fn |-> f, this |-> this, args |-> argv]

KeysOf(ps) == [i \in 1..Len(ps) |-> ps[i].key]

RECURSIVE IndexIn(_, _, _)
IndexIn(ps, k, i) ==
    IF i > Len(ps) THEN 0
    ELSE IF ps[i].key = k THEN i ELSE IndexIn(ps, k, i + 1)

\* position of the own property k of o, 0 when o has none
OwnIndex(o, k) == IndexIn(o.props, k, 1)

HasOwn(o, k) == OwnIndex(o, k) # 0

\* [[GetOwnProperty]]
GetOwnProperty(o, k) == IF HasOwn(o, k) THEN o.props[OwnIndex(o, k)] ELSE NoProp

\* a property list kept in creation order alone: a new key goes last
BeforeInCreationOrder(k, p) == FALSE

\* OrdinaryOwnPropertyKeys lists index keys in ascending numeric order, then
\* the other strings in creation order, then symbols in creation order; the
\* property list is kept in that order, so a new key is placed by its class
Before(k, p) ==
    IF IsIndex(k) THEN ~IsIndex(p.key) \/ IndexValue[p.key] > IndexValue[k]
    ELSE IF IsSymbol(k) THEN FALSE
    ELSE IsSymbol(p.key)

RECURSIVE InsertPos(_, _, _)
InsertPos(ps, k, i) ==
    IF i > Len(ps) THEN i
    ELSE IF Before(k, ps[i]) THEN i ELSE InsertPos(ps, k, i + 1)

InsertAt(ps, i, p) == SubSeq(ps, 1, i - 1) \o <<p>> \o SubSeq(ps, i, Len(ps))

\* CreateDataProperty on an object without the key
CreateDataProperty(o, k, v) ==
    [o EXCEPT !.props = InsertAt(o.props, InsertPos(o.props, k, 1), DataProp(k, v, TRUE, TRUE))]

\* CreateDataPropertyOrThrow(o, k, v), also Object.defineProperty(o, k, {value:
\* v, enumerable: true, writable: true, configurable: true}): a configurable
\* own property is redefined in place
DefineProperty(o, k, v) ==
    IF HasOwn(o, k)
    THEN [o EXCEPT !.props[OwnIndex(o, k)] = DataProp(k, v, TRUE, TRUE)]
    ELSE CreateDataProperty(o, k, v)

RECURSIVE FindProperty(_, _, _)
\* the property that a lookup of k starting at a resolves to
FindProperty(h, a, k) ==
    IF a = NULL THEN NoProp
    ELSE IF HasOwn(h[a], k) THEN GetOwnProperty(h[a], k)
    ELSE FindProperty(h, h[a].proto, k)

\* [[Get]]: the only accessor of the realm is Object.prototype.__proto__
Get(h, a, k) ==
    LET d == FindProperty(h, a, k) IN
    IF d.kind = "none" THEN UNDEFINED
    ELSE IF d.kind = "accessor" THEN h[a].proto
    ELSE d.value

\* the outcome of a library or platform operation: it returns a value or
\* raises one, and leaves a heap
Return(h, v) == [ok |-> TRUE, heap |-> h, value |-> v]
Raise(h, e) == [ok |-> FALSE, heap |-> h, value |-> e]

Ok(h) == Return(h, UNDEFINED)
TypeError(h) == Raise(h, "TypeError")

\* Set(O, P, V, true) = OrdinarySet with receiver O
Set(h, a, k, v) ==
    LET d == FindProperty(h, a, k) IN
    IF d.kind = "accessor" THEN
        \* set Object.prototype.__proto__: a value that is neither an
        \* object nor null is ignored
        IF IsObject(h, v) \/ v = NULL
        THEN Ok([h EXCEPT ![a].proto = v])
        ELSE Ok(h)
    ELSE IF d.kind = "data" /\ ~d.writable THEN TypeError(h)
    ELSE IF HasOwn(h[a], k)
    THEN Ok([h EXCEPT ![a].props[OwnIndex(h[a], k)].value = v])
    ELSE Ok([h EXCEPT ![a] = CreateDataProperty(h[a], k, v)])

RECURSIVE AssignKeys(_, _, _, _, _)
AssignKeys(h, target, source, ks, i) ==
    IF i > Len(ks) THEN Ok(h)
    ELSE LET d == GetOwnProperty(h[source], ks[i]) IN
         IF d.kind = "none" \/ ~d.enumerable
         THEN AssignKeys(h, target, source, ks, i + 1)
         ELSE LET r == Set(h, target, ks[i], Get(h, source, ks[i])) IN
              IF r.ok THEN AssignKeys(r.heap, target, source, ks, i + 1) ELSE r

\* Object.assign(target, source) with one source; an undefined source is
\* skipped
ObjectAssign(h, target, source) ==
    IF source = UNDEFINED THEN Ok(h)
    ELSE AssignKeys(h, target, source, KeysOf(h[source].props), 1)

\* Object.create(proto) placed at the fresh address a
ObjectCreate(h, a, proto) == (a :> PlainObj(proto, <<>>)) @@ h

-----------------------------------------------------------------------------
(* Construction and copy *)

\* emptyObject written as an object literal: {} inherits from Object.prototype
emptyObjectLiteral(h, a) == ObjectCreate(h, a, ObjectPrototype)

\* emptyObject(): Object.create(null), placed at the fresh address a
emptyObject(h, a) == ObjectCreate(h, a, NULL)

\* the function returned by assignment: Object.assign returns its target
AssignInto(h, a, source) ==
    LET r == ObjectAssign(h, a, source) IN
    IF r.ok THEN Return(r.heap, a) ELSE r

\* the own properties every function object is created with
FunctionProps(name, len) ==
    <<DataProp("length", len, FALSE, FALSE), DataProp("name", name, FALSE, FALSE)>>

\* the prototype object a function expression is created with
CopyPrototypeAddr == "copy.prototype"

\* the function expression of copy: function (this, ...args) {...}, created
\* with Function.prototype as its prototype and closing over object
CopyWrapper(h, a, obj) ==
    (a :> Obj(FunctionPrototype, "wrapper", obj, "",
              FunctionProps("copy", "0")
              \o <<DataProp("prototype", CopyPrototypeAddr, FALSE, TRUE)>>))
    @@ (CopyPrototypeAddr :>
            PlainObj(ObjectPrototype, <<DataProp("constructor", a, FALSE, TRUE)>>))
    @@ h

\* Object.setPrototypeOf(o, proto)
SetPrototypeOf(h, a, proto) == [h EXCEPT ![a].proto = proto]

\* copy that creates the new object with the input as its prototype:
\* Object.create(object)
copyInheriting(h, a, obj) ==
    IF h[obj].fn # "none"
    THEN AssignInto(SetPrototypeOf(CopyWrapper(h, a, obj), a, obj), a, obj)
    ELSE AssignInto(ObjectCreate(h, a, obj), a, obj)

\* copy(object)
copy(h, a, obj) ==
    IF h[obj].fn # "none"
    THEN AssignInto(SetPrototypeOf(CopyWrapper(h, a, obj), a, h[obj].proto), a, obj)
    ELSE AssignInto(ObjectCreate(h, a, h[obj].proto), a, obj)

\* object written as copy: the prototype and the callability are kept
objectAsCopy(h, a, properties) == copy(h, a, properties)

\* object that copies the structures its argument holds as values too: a
\* value that is an object is replaced by a new object with its properties
objectDeep(h, a, properties) ==
    LET r == AssignInto(ObjectCreate(h, a, NULL), a, properties)
        ps == r.heap[a].props
        deep == [i \in 1..Len(ps) |->
                    IF IsObject(h, ps[i].value) THEN [ps[i] EXCEPT !.value = "clone"] ELSE ps[i]]
        vs == {ps[i].value : i \in 1..Len(ps)} \cap DOMAIN h
    IN IF vs = {} THEN r
       ELSE Return(("clone" :> h[CHOOSE v \in vs : TRUE]) @@ [r.heap EXCEPT ![a].props = deep], a)

\* object(properties)
object(h, a, properties) == AssignInto(ObjectCreate(h, a, NULL), a, properties)

\* record written with an object literal: {...properties} inherits from
\* Object.prototype
recordLiteral(h, a, properties) ==
    AssignInto(ObjectCreate(h, a, ObjectPrototype), a, properties)

\* record(properties?)
record(h, a, properties) == AssignInto(ObjectCreate(h, a, NULL), a, properties)

-----------------------------------------------------------------------------
(* Merge *)

RECURSIVE MergeLoopDown(_, _, _, _)
\* the loop of mergeObjects run from the last mapping down to the first
MergeLoopDown(h, a, records, i) ==
    IF i > Len(records) THEN Return(h, a)
    ELSE LET r == ObjectAssign(h, a, records[Len(records) + 1 - i]) IN
         IF r.ok THEN MergeLoopDown(r.heap, a, records, i + 1) ELSE r

RECURSIVE MergeLoop(_, _, _, _)
MergeLoop(h, a, records, i) ==
    IF i > Len(records) THEN Return(h, a)
    ELSE LET r == ObjectAssign(h, a, records[i]) IN
         IF r.ok THEN MergeLoop(r.heap, a, records, i + 1) ELSE r

\* mergeObjectsFn that passes only its first pre-supplied mapping on
mergeObjectsFnFirstOnly(h, a, records, rec) ==
    LET r == record(h, a, UNDEFINED) IN
    MergeLoop(r.heap, a, <<rec>> \o (IF records = <<>> THEN <<>> ELSE <<records[1]>>), 1)

\* mergeObjectsFn that applies the later-bound mapping last
mergeObjectsFnLaterLast(h, a, records, rec) ==
    LET r == record(h, a, UNDEFINED) IN MergeLoop(r.heap, a, records \o <<rec>>, 1)

\* mergeObjects that gathers the properties in its first mapping:
\* Object.assign(records[0], ...)
mergeObjectsInPlace(h, a, records) ==
    IF records = <<>> THEN record(h, a, UNDEFINED) ELSE MergeLoop(h, records[1], records, 2)

\* mergeObjects with its loop started one mapping late
mergeObjectsSkipFirst(h, a, records) ==
    LET r == record(h, a, UNDEFINED) IN MergeLoop(r.heap, a, records, 2)

\* mergeObjects(...records)
mergeObjects(h, a, records) ==
    LET r == record(h, a, UNDEFINED) IN MergeLoop(r.heap, a, records, 1)

\* the function returned by mergeObjectsFn(...records), applied to rec
mergeObjectsFn(h, a, records, rec) == mergeObjects(h, a, <<rec>> \o records)

\* merge(...dictionaries) of the first revision
merge(h, a, dictionaries) == MergeLoop(ObjectCreate(h, a, NULL), a, dictionaries, 1)

\* the function returned by mergeFn(...dictionaries), applied to b, where
\* merged is the address of a = merge(...dictionaries)
mergeFn(h, a, merged, b) == merge(h, a, <<merged>> \o b)

-----------------------------------------------------------------------------
(* Enumeration *)

\* EnumerableOwnProperties(O, key+value): the own enumerable string-keyed
\* properties of the object at a, in the order of OrdinaryOwnPropertyKeys
EnumerableOwnEntries(h, a) ==
    LET ps == h[a].props
        F[i \in 0..Len(ps)] ==
            IF i = 0 THEN <<>>
            ELSE IF IsString(ps[i].key) /\ ps[i].enumerable
            THEN Append(F[i - 1], <<ps[i].key, Get(h, a, ps[i].key)>>)
            ELSE F[i - 1]
    IN F[Len(ps)]

\* ToObject raises a TypeError for undefined and null
ToObject(h, v) == IF v \in {UNDEFINED, NULL} THEN TypeError(h) ELSE Return(h, v)

\* entries that lists the symbol-keyed properties too, as a loop over
\* Reflect.ownKeys would
entriesWithSymbols(h, obj) ==
    IF ToObject(h, obj).ok
    THEN LET ps == SelectSeq(h[obj].props, LAMBDA p : p.enumerable) IN
         Return(h, [i \in 1..Len(ps) |-> <<ps[i].key, ps[i].value>>])
    ELSE TypeError(h)

\* entries = Object.entries
entries(h, obj) ==
    IF ToObject(h, obj).ok THEN Return(h, EnumerableOwnEntries(h, obj)) ELSE TypeError(h)

\* keys written with Object.getOwnPropertyNames, which also lists the own
\* string-keyed properties that are not enumerable
keysOwnPropertyNames(h, obj) ==
    IF ToObject(h, obj).ok
    THEN Return(h, SelectSeq(KeysOf(h[obj].props), IsString))
    ELSE TypeError(h)

\* keys that reads an absent mapping as an empty one: Object.keys(object ?? {})
keysOfAbsentEmpty(h, obj) ==
    IF ToObject(h, obj).ok
    THEN Return(h, [i \in 1..Len(EnumerableOwnEntries(h, obj)) |-> EnumerableOwnEntries(h, obj)[i][1]])
    ELSE Return(h, <<>>)

\* keys = Object.keys
keys(h, obj) ==
    IF ToObject(h, obj).ok
    THEN Return(h, [i \in 1..Len(EnumerableOwnEntries(h, obj)) |-> EnumerableOwnEntries(h, obj)[i][1]])
    ELSE TypeError(h)

\* values = Object.values
values(h, obj) ==
    IF ToObject(h, obj).ok
    THEN Return(h, [i \in 1..Len(EnumerableOwnEntries(h, obj)) |-> EnumerableOwnEntries(h, obj)[i][2]])
    ELSE TypeError(h)

\* empty(record)
empty(h, rec) ==
    LET r == keys(h, rec) IN
    IF r.ok THEN Return(h, Len(r.value) = 0) ELSE r

-----------------------------------------------------------------------------
(* Functions the caller passes *)

\* a number used as a property key is converted to its canonical string
ToPropertyKey(k) == IF k = "#1" THEN "1" ELSE IF k = "#2" THEN "2" ELSE k

Second(argv) == IF Len(argv) > 1 THEN argv[2] ELSE UNDEFINED

\* isNotNull written with the strict comparison value !== null, which is
\* true of undefined
isNotNullStrict(v) == v # NULL

\* isNotNull of @softwareventures/nullable (notNull: value != null)
isNotNull(v) == v # NULL /\ v # UNDEFINED

\* what the function named f returns, or raises, for the arguments argv
UserFn(f, argv) ==
    CASE f = "isNotNull" -> [ok |-> TRUE, value |-> isNotNull(argv[1])]
      [] f = "first" -> [ok |-> TRUE, value |-> argv[1]]
      [] f = "second" -> [ok |-> TRUE, value |-> Second(argv)]
      [] f = "constA" -> [ok |-> TRUE, value |-> "a"]
      [] f = "toSymbol" -> [ok |-> TRUE, value |-> "@s"]
      [] f = "toNumber" -> [ok |-> TRUE, value |-> "#1"]
      [] f = "throwOnB" -> IF argv[1] = "b" \/ Second(argv) = "b"
                           THEN [ok |-> FALSE, value |-> "boom"]
                           ELSE [ok |-> TRUE, value |-> argv[1]]
      [] f = "pair" -> [ok |-> TRUE, value |-> <<argv[1], Second(argv)>>]
      [] f = "pairConstA" -> [ok |-> TRUE, value |-> <<"a", Second(argv)>>]
      [] f = "pairSymbolKey" -> [ok |-> TRUE, value |-> <<"@s", argv[1]>>]
      [] f = "pairNumberKey" -> [ok |-> TRUE, value |-> <<"#1", argv[1]>>]
      [] f = "pairThrowOnB" -> IF argv[1] = "b"
                               THEN [ok |-> FALSE, value |-> "boom"]
                               ELSE [ok |-> TRUE, value |-> <<argv[1], Second(argv)>>]
      [] f = "isA" -> [ok |-> TRUE, value |-> argv[1] = "a"]
      [] f = "isV1" -> [ok |-> TRUE, value |-> (argv[1] = "v1" \/ Second(argv) = "v1")]
      [] f = "always" -> [ok |-> TRUE, value |-> TRUE]
      [] f = "never" -> [ok |-> TRUE, value |-> FALSE]
      [] f = "isAThrowOnB" -> IF argv[1] = "b" \/ Second(argv) = "b"
                              THEN [ok |-> FALSE, value |-> "boom"]
                              ELSE [ok |-> TRUE, value |-> argv[1] = "a"]
      [] f = "firstChangingB" -> [ok |-> TRUE, value |-> argv[1]]
      [] f = "alwaysChangingB" -> [ok |-> TRUE, value |-> TRUE]
      [] f = "pairChangingB" -> [ok |-> TRUE, value |-> <<argv[1], Second(argv)>>]

\* a function value: the function named name, or, with neg, the arrow
\* function (...args) => !name(...args) an exclude function wraps it in,
\* or, with pair, the arrow function (k, v) => [name(k), v]
Fn(name) == [name |-> name, neg |-> FALSE, pair |-> FALSE]
Not(p) == [name |-> p.name, neg |-> ~p.neg, pair |-> FALSE]
KeyedPair(f) == [name |-> f.name, neg |-> FALSE, pair |-> TRUE]

Negated(r) == IF r.ok THEN [ok |-> TRUE, value |-> ~r.value] ELSE r
Paired(r, v) == IF r.ok THEN [ok |-> TRUE, value |-> <<r.value, v>>] ELSE r

Apply(f, argv) ==
    IF f.pair THEN Paired(UserFn(f.name, <<argv[1]>>), argv[2])
    ELSE IF f.neg THEN Negated(UserFn(f.name, argv))
    ELSE UserFn(f.name, argv)

\* the functions of the caller that, each time they are called, also store
\* in the mapping they close over: m.b = "changed"
Effectful == {"firstChangingB", "alwaysChangingB", "pairChangingB"}

\* the mapping such a function closes over: the one the caller passes
Captured == "arg1"

\* the heap after one call of f
Effect(h, f, argv) ==
    IF f.name \in Effectful THEN Set(h, Captured, "b", "changed").heap ELSE h

RECURSIVE Effects(_, _, _, _)
\* the heap after the calls of f for the first n of the argument lists argvs
Effects(h, f, argvs, n) ==
    IF n = 0 THEN h ELSE Effect(Effects(h, f, argvs, n - 1), f, argvs[n])

PairFns == {"pair", "pairConstA", "pairSymbolKey", "pairNumberKey", "pairThrowOnB"}
KeyFns == {"first", "constA", "toSymbol", "toNumber", "throwOnB"}
ValueFns == {"first", "second", "constA", "throwOnB"}
EntryPredicates == {"isA", "isV1", "always", "isAThrowOnB"}
KeyPredicates == {"isA", "always", "never", "isAThrowOnB"}
ValuePredicates == {"isV1", "always", "never"}


-----------------------------------------------------------------------------
(* Sequences of entries *)

FirstFailure(rs) == CHOOSE i \in 1..Len(rs) : ~rs[i].ok /\ \A j \in 1..(i - 1) : rs[j].ok

\* the calls made to f for the first n entries; argvs[i] holds the
\* arguments of the call for the i-th entry
CallsOf(f, argvs, n) == [i \in 1..n |-> CallEntry(f.name, UNDEFINED, argvs[i])]

\* map(iterable, g) of @softwareventures/iterable, consumed to its end;
\* rs[i] is the outcome of g for the i-th element: the elements g returns,
\* in order; when g raises for an element, no later element is visited and
\* the failure reaches the consumer
IterMap(rs) ==
    IF \A i \in 1..Len(rs) : rs[i].ok
    THEN [ok |-> TRUE, value |-> [i \in 1..Len(rs) |-> rs[i].value], count |-> Len(rs)]
    ELSE [ok |-> FALSE, value |-> rs[FirstFailure(rs)].value, count |-> FirstFailure(rs)]

RECURSIVE Select(_, _, _)
Select(es, rs, i) ==
    IF i > Len(es) THEN <<>>
    ELSE IF rs[i].value THEN <<es[i]>> \o Select(es, rs, i + 1)
    ELSE Select(es, rs, i + 1)

\* filter(iterable, g) of @softwareventures/iterable, consumed to its end;
\* rs[i] is the outcome of g for the i-th element: the elements for which g
\* returns true, in order
IterFilter(es, rs) ==
    IF \A i \in 1..Len(es) : rs[i].ok
    THEN [ok |-> TRUE, value |-> Select(es, rs, 1), count |-> Len(es)]
    ELSE [ok |-> FALSE, value |-> rs[FirstFailure(rs)].value, count |-> FirstFailure(rs)]

RECURSIVE DefineEntries(_, _, _)
DefineEntries(o, es, i) ==
    IF i > Len(es) THEN o
    ELSE DefineEntries(DefineProperty(o, ToPropertyKey(es[i][1]), es[i][2]), es, i + 1)

\* Object.fromEntries(entries): an ordinary object, placed at the fresh
\* address t, with CreateDataPropertyOrThrow for each entry in turn
ObjectFromEntries(h, t, es) ==
    (t :> DefineEntries(PlainObj(ObjectPrototype, <<>>), es, 1)) @@ h

\* objectFromEntries(entries)
objectFromEntries(h, a, es) ==
    AssignInto(emptyObject(ObjectFromEntries(h, TempAddr, es), a), a, TempAddr)

\* a traversal that catches the failure of the function the caller passed
\* and returns an empty mapping in its place
TraversalCatches(h, a, f, it, argvs) ==
    LET h2 == Effects(h, f, argvs, it.count)
        r == objectFromEntries(h2, a, IF it.ok THEN it.value ELSE <<>>) IN
    [ok |-> r.ok, heap |-> r.heap, value |-> r.value,
     log |-> CallsOf(f, argvs, it.count)]

\* the outcome of a traversal: the mapping built from the entries it, or
\* the failure of the function the caller passed; with the calls made to f
Traversal(h, a, f, it, argvs) ==
    LET h2 == Effects(h, f, argvs, it.count)
        r == IF it.ok THEN objectFromEntries(h2, a, it.value) ELSE Raise(h2, it.value) IN
    [ok |-> r.ok, heap |-> r.heap, value |-> r.value,
     log |-> CallsOf(f, argvs, it.count)]

\* the outcomes of f for each of the argument lists argvs
Outcomes(f, argvs) == [i \in 1..Len(argvs) |-> Apply(f, argvs[i])]

-----------------------------------------------------------------------------
(* Transform *)

\* ([key, value]) => [f(key), value]
WithValue(r, v) == IF r.ok THEN [ok |-> TRUE, value |-> <<r.value, v>>] ELSE r

\* ([key, value]) => [key, f(value, key)]
WithKey(k, r) == IF r.ok THEN [ok |-> TRUE, value |-> <<k, r.value>>] ELSE r

\* mapObject that keeps, of the pairs with one key, the first: the pairs
\* reach objectFromEntries last to first
mapObjectKeepFirst(h, a, obj, f) ==
    LET es == entries(h, obj).value
        argvs == [i \in 1..Len(es) |-> <<es[i][1], es[i][2]>>]
        it == IterMap(Outcomes(f, argvs))
    IN Traversal(h, a, f,
                 IF it.ok
                 THEN [it EXCEPT !.value = [i \in 1..Len(it.value) |->
                                               it.value[Len(it.value) + 1 - i]]]
                 ELSE it,
                 argvs)

\* mapObject(object, f)
mapObject(h, a, obj, f) ==
    LET es == entries(h, obj).value
        argvs == [i \in 1..Len(es) |-> <<es[i][1], es[i][2]>>]
    IN Traversal(h, a, f, IterMap(Outcomes(f, argvs)), argvs)

\* mapObjectKeys that hands f the value of the entry instead of its key:
\* ([key, value]) => [f(value), value]
mapObjectKeysOfValue(h, a, obj, f) ==
    LET es == entries(h, obj).value
        argvs == [i \in 1..Len(es) |-> <<es[i][2]>>]
        rs == [i \in 1..Len(es) |-> WithValue(Apply(f, argvs[i]), es[i][2])]
    IN Traversal(h, a, f, IterMap(rs), argvs)

\* mapObjectKeys(object, f)
mapObjectKeys(h, a, obj, f) ==
    LET es == entries(h, obj).value
        argvs == [i \in 1..Len(es) |-> <<es[i][1]>>]
        rs == [i \in 1..Len(es) |-> WithValue(Apply(f, argvs[i]), es[i][2])]
    IN Traversal(h, a, f, IterMap(rs), argvs)

\* mapObjectValues that hands f the key first:
\* ([key, value]) => [key, f(key, value)]
mapObjectValuesKeyFirst(h, a, obj, f) ==
    LET es == entries(h, obj).value
        argvs == [i \in 1..Len(es) |-> <<es[i][1], es[i][2]>>]
        rs == [i \in 1..Len(es) |-> WithKey(es[i][1], Apply(f, argvs[i]))]
    IN Traversal(h, a, f, IterMap(rs), argvs)

\* mapObjectValues(object, f)
mapObjectValues(h, a, obj, f) ==
    LET es == entries(h, obj).value
        argvs == [i \in 1..Len(es) |-> <<es[i][2], es[i][1]>>]
        rs == [i \in 1..Len(es) |-> WithKey(es[i][1], Apply(f, argvs[i]))]
    IN Traversal(h, a, f, IterMap(rs), argvs)

-----------------------------------------------------------------------------
(* Predicate selection *)

\* filterObject that hands the predicate the value first, as filter of the
\* earlier revision did: ([key, value]) => predicate(value, key)
filterObjectValueFirst(h, a, obj, p) ==
    LET es == entries(h, obj).value
        argvs == [i \in 1..Len(es) |-> <<es[i][2], es[i][1]>>]
    IN Traversal(h, a, p, IterFilter(es, Outcomes(p, argvs)), argvs)

\* filterObject(object, predicate)
filterObject(h, a, obj, p) ==
    LET es == entries(h, obj).value
        argvs == [i \in 1..Len(es) |-> <<es[i][1], es[i][2]>>]
    IN Traversal(h, a, p, IterFilter(es, Outcomes(p, argvs)), argvs)

\* filterObjectKeys(object, predicate)
filterObjectKeys(h, a, obj, p) ==
    LET es == entries(h, obj).value
        argvs == [i \in 1..Len(es) |-> <<es[i][1]>>]
    IN Traversal(h, a, p, IterFilter(es, Outcomes(p, argvs)), argvs)

\* filterObjectValues(object, predicate)
filterObjectValues(h, a, obj, p) ==
    LET es == entries(h, obj).value
        argvs == [i \in 1..Len(es) |-> <<es[i][2]>>]
    IN Traversal(h, a, p, IterFilter(es, Outcomes(p, argvs)), argvs)

\* excludeObjectEntries(object, predicate)
excludeObjectEntries(h, a, obj, p) == filterObject(h, a, obj, Not(p))

\* excludeObjectKeys that calls the filter of values, not of keys
excludeObjectKeysByValue(h, a, obj, p) == filterObjectValues(h, a, obj, Not(p))

\* excludeObjectKeys that passes the predicate on without negating it
excludeObjectKeysAsFilter(h, a, obj, p) == filterObjectKeys(h, a, obj, p)

\* excludeObjectKeys(object, predicate)
excludeObjectKeys(h, a, obj, p) == filterObjectKeys(h, a, obj, Not(p))

\* excludeObjectValues(object, predicate)
excludeObjectValues(h, a, obj, p) == filterObjectValues(h, a, obj, Not(p))

\* excludeNullProperties(object) = filterObjectValues(object, isNotNull)
excludeNullProperties(h, a, obj) == filterObjectValues(h, a, obj, Fn("isNotNull"))

RECURSIVE FilterLoop(_, _, _, _, _)
\* the loop of filter over the entries es, rs[i] being the outcome of
\* predicate(value, key) for the i-th: result[key] = value where it is true
FilterLoop(h, a, es, rs, i) ==
    IF i > Len(es) THEN Return(h, a)
    ELSE IF ~rs[i].ok THEN Raise(h, rs[i].value)
    ELSE IF rs[i].value
    THEN LET r == Set(h, a, es[i][1], es[i][2]) IN
         IF r.ok THEN FilterLoop(r.heap, a, es, rs, i + 1) ELSE r
    ELSE FilterLoop(h, a, es, rs, i + 1)

\* filter(dictionary, predicate) of the earlier revision
filter(h, a, dictionary, predicate) ==
    LET es == entries(h, dictionary).value
        argvs == [i \in 1..Len(es) |-> <<es[i][2], es[i][1]>>]
        rs == Outcomes(predicate, argvs)
        n == IF \A i \in 1..Len(rs) : rs[i].ok THEN Len(rs) ELSE FirstFailure(rs)
        r == FilterLoop(ObjectCreate(Effects(h, predicate, argvs, n), a, NULL), a, es, rs, 1)
    IN [ok |-> r.ok, heap |-> r.heap, value |-> r.value,
        log |-> CallsOf(predicate, argvs, n)]

\* excludeNull(dictionary) of the earlier revision = filter(dictionary, notNull)
excludeNull(h, a, dictionary) == filter(h, a, dictionary, Fn("isNotNull"))

\* forEach written as a loop over keys(dictionary) that reads each value
\* when its turn comes: f(dictionary[key], key)
forEachLive(h, dictionary, f) ==
    LET ks == keys(h, dictionary).value
        F[i \in 0..Len(ks)] ==
            IF i = 0 THEN [ok |-> TRUE, heap |-> h, value |-> UNDEFINED, log |-> <<>>]
            ELSE IF ~F[i - 1].ok THEN F[i - 1]
            ELSE LET argv == <<Get(F[i - 1].heap, dictionary, ks[i]), ks[i]>>
                     r == Apply(f, argv)
                 IN [ok |-> r.ok, heap |-> Effect(F[i - 1].heap, f, argv),
                     value |-> IF r.ok THEN UNDEFINED ELSE r.value,
                     log |-> Append(F[i - 1].log, CallEntry(f.name, UNDEFINED, argv))]
    IN F[Len(ks)]

\* forEach(dictionary, f) of the earlier revision: f(value, key) for each
\* entry in turn; it returns nothing
forEach(h, dictionary, f) ==
    LET es == entries(h, dictionary).value
        argvs == [i \in 1..Len(es) |-> <<es[i][2], es[i][1]>>]
        rs == Outcomes(f, argvs)
        n == IF \A i \in 1..Len(rs) : rs[i].ok THEN Len(rs) ELSE FirstFailure(rs)
    IN [ok |-> n = Len(rs) /\ (n = 0 \/ rs[n].ok),
        heap |-> Effects(h, f, argvs, n),
        value |-> IF n = Len(rs) /\ (n = 0 \/ rs[n].ok) THEN UNDEFINED ELSE rs[n].value,
        log |-> CallsOf(f, argvs, n)]

-----------------------------------------------------------------------------
(* Calling a function object *)

Outcome(ok, v, lg) == [ok |-> ok, value |-> v, log |-> lg]

\* what a function written by the caller does with its receiver and
\* arguments
Body(b, this, argv) ==
    CASE b = "this" -> [ok |-> TRUE, value |-> this]
      [] b = "arg" -> [ok |-> TRUE, value |-> IF Len(argv) > 0 THEN argv[1] ELSE UNDEFINED]
      [] b = "throw" -> [ok |-> FALSE, value |-> "boom"]
      [] OTHER -> [ok |-> TRUE, value |-> "v1"]

RECURSIVE Call(_, _, _, _, _)
RECURSIVE WrapperCall(_, _, _, _, _)

\* the wrapper written with a direct call: the receiver is lost
WrapperCallNoReceiver(h, w, this, argv, lg) == Call(h, h[w].target, UNDEFINED, argv, lg)

\* the body of the function expression of copy:
\* return object.apply(this, args)
WrapperCall(h, w, this, argv, lg) == Call(h, h[w].target, this, argv, lg)

\* [[Call]] of the function object f; a class constructor called without
\* new raises a TypeError
Call(h, f, this, argv, lg) ==
    IF h[f].fn = "wrapper" THEN WrapperCall(h, f, this, argv, lg)
    ELSE IF h[f].fn = "class"
    THEN Outcome(FALSE, "TypeError", Append(lg, CallEntry(f, this, argv)))
    ELSE LET r == Body(h[f].body, this, argv) IN
         Outcome(r.ok, r.value, Append(lg, CallEntry(f, this, argv)))

\* the object a construction allocates
InstanceAddr == "instance"

\* [[Construct]] of the function expression w of copy, new w(...argv): the
\* new object inherits from w.prototype, or from Object.prototype when that
\* is not an object; the body runs with it as receiver, and an object the
\* body returns takes its place
Construct(h, w, argv, lg) ==
    LET p == Get(h, w, "prototype")
        h1 == (InstanceAddr :> PlainObj(IF IsObject(h, p) THEN p ELSE ObjectPrototype, <<>>)) @@ h
        r == WrapperCall(h1, w, InstanceAddr, argv, lg)
    IN [ok |-> r.ok, heap |-> h1, log |-> r.log,
        value |-> IF r.ok /\ ~IsObject(h1, r.value) THEN InstanceAddr ELSE r.value]

-----------------------------------------------------------------------------
(* The arguments the caller builds *)

ArgAddr == <<"arg1", "arg2", "arg3", "arg4", "arg5">>
ArgVal == <<"v1", "v2", "v3", "v4", "v5">>

Bodies == {"const", "this", "arg", "throw"}

PlainBases == {PlainObj(p, <<>>) : p \in {ObjectPrototype, NULL, APrototype}}

\* an arrow function has no own prototype property; a function expression
\* has a writable one and a class a read-only one
FunctionBases ==
    {Obj(FunctionPrototype, "arrow", NULL, b, FunctionProps("f", "0")) : b \in Bodies}
    \cup {Obj(FunctionPrototype, "function", NULL, "this",
              FunctionProps("f", "0") \o <<DataProp("prototype", "f.prototype", FALSE, TRUE)>>),
          Obj(FunctionPrototype, "class", NULL, "const",
              FunctionProps("A", "0") \o <<DataProp("prototype", APrototype, FALSE, FALSE)>>)}

\* a structure the caller holds and stores in a mapping as a value, and
\* the heap the caller starts from
NestedAddr == "nested"
World == (NestedAddr :> PlainObj(ObjectPrototype, <<DataProp("x", "v1", TRUE, TRUE)>>)) @@ Realm

\* the keys the caller defines on a plain object and on a function, and the
\* values it gives a key: a primitive, the structure it holds, or the
\* object itself
PlainKeys == {"1", "a", "b", "@s", "__proto__"}
FunctionKeys == {"a", "@s", "name", "prototype"}
MergeKeys == {"1", "2", "a", "b", "@s"}
ValuesFor(k) ==
    IF k = "__proto__" THEN {"v1", APrototype, ArgAddr[1]}
    ELSE IF k = "b" THEN {"v2", NULL, UNDEFINED}
    ELSE IF k = "a" THEN Vals \cup {Zero, NestedAddr, ArgAddr[1]}
    ELSE Vals

\* the keys the caller can still define on o: not one it has defined, and
\* not the prototype property of a function, which is not configurable
Definable(o, ks) ==
    {k \in ks : ~GetOwnProperty(o, k).enumerable
                /\ ~(k = "prototype" /\ HasOwn(o, k))}

RECURSIVE Build(_, _, _, _)
\* the objects made from one of bases by defining at most n properties
Build(bases, ks, vs, n) ==
    IF n = 0 THEN bases
    ELSE LET prev == Build(bases, ks, vs, n - 1) IN
         prev \cup UNION {UNION {{DefineProperty(o, k, v) : v \in vs[k]} : k \in Definable(o, ks)}
                          : o \in prev}

\* Object.defineProperty(o, k, {enumerable: false}) on the first property
Hide(o) == [o EXCEPT !.props[1].enumerable = FALSE]

PlainObjs ==
    LET os == Build(PlainBases, PlainKeys, [k \in PlainKeys |-> ValuesFor(k)], MaxProps) IN
    os \cup {Hide(o) : o \in {x \in os : Len(x.props) > 0}}

FunctionObjs ==
    Build(FunctionBases, FunctionKeys, [k \in FunctionKeys |-> ValuesFor(k)], MaxProps)

\* the mappings passed to a merge of several: the i-th holds the value
\* ArgVal[i] at each of its keys; one of them inherits an enumerable
\* property and has an own property that is not enumerable
MergeShapes ==
    Build({PlainObj(ObjectPrototype, <<>>)}, MergeKeys, [k \in MergeKeys |-> {"v"}], MaxProps)
    \cup {PlainObj(APrototype, <<DataProp("b", "v", FALSE, TRUE)>>)}

Revalue(o, v) == [o EXCEPT !.props = [i \in 1..Len(o.props) |-> [o.props[i] EXCEPT !.value = v]]]

\* the heap h with the objects os placed at the argument addresses
Place(h, os) == [i \in {ArgAddr[j] : j \in 1..Len(os)} |->
                    os[CHOOSE j \in 1..Len(os) : ArgAddr[j] = i]] @@ h

\* the keys an object has from its creation: a function is created with
\* length and name, and a function expression or class with prototype
CreationKeys(o) ==
    IF o.fn = "none" THEN {}
    ELSE {"length", "name"} \cup (IF o.fn \in {"function", "class"} THEN {"prototype"} ELSE {})

Orderings(S) ==
    {s \in [1..Cardinality(S) -> S] : \A i, j \in 1..Cardinality(S) : s[i] = s[j] => i = j}

IsName(k) == IsString(k) /\ ~IsIndex(k)

\* the orders in which the own keys of o can have been created: the keys
\* of its creation first, and the strings that are not index keys, and the
\* symbols, in the order o lists them; an index key at any time after
InsertionOrders(o) ==
    {s \in Orderings({o.props[i].key : i \in 1..Len(o.props)}) :
        /\ SelectSeq(s, IsName) = SelectSeq(KeysOf(o.props), IsName)
        /\ SelectSeq(s, IsSymbol) = SelectSeq(KeysOf(o.props), IsSymbol)
        /\ \A i, j \in 1..Len(s) :
              (s[i] \in CreationKeys(o) /\ s[j] \notin CreationKeys(o)) => i < j}

-----------------------------------------------------------------------------
(* The caller *)

NoCall == [op |-> "none", args |-> <<>>, f |-> "", ok |-> TRUE, value |-> UNDEFINED]
NoInv == [this |-> UNDEFINED, args |-> <<>>, ok |-> TRUE, value |-> UNDEFINED]

Init ==
    /\ \/ \E o \in PlainObjs \cup FunctionObjs :
             /\ heap = Place(World, <<o>>)
             /\ input = <<ArgAddr[1]>>
             /\ inserted \in InsertionOrders(o)
       \/ \E n \in 2..MaxArgs :
             \E os \in [1..n -> MergeShapes] :
                /\ heap = Place(World, [i \in 1..n |-> Revalue(os[i], ArgVal[i])])
                /\ input = [i \in 1..n |-> ArgAddr[i]]
                /\ inserted = KeysOf(os[1].props)
       \/ \E v \in {NULL, UNDEFINED} :
             \* an absent mapping, passed to the enumeration functions
             /\ heap = World
             /\ input = <<v>>
             /\ inserted = <<>>
    /\ pc = "idle"
    /\ call = NoCall
    /\ inv = NoInv
    /\ log = <<>>

\* the caller receives the outcome r of the call op(as)
Receive(op, as, r) ==
    /\ heap' = r.heap
    /\ call' = [op |-> op, args |-> as, f |-> "", ok |-> r.ok, value |-> r.value]
    /\ pc' = "done"
    /\ UNCHANGED <<input, inserted, inv, log>>

\* the caller receives the outcome r of the call op(as, f), during which
\* the library has called f
ReceiveWith(op, as, f, r) ==
    /\ heap' = r.heap
    /\ call' = [op |-> op, args |-> as, f |-> f, ok |-> r.ok, value |-> r.value]
    /\ log' = log \o r.log
    /\ pc' = "done"
    /\ UNCHANGED <<input, inserted, inv>>

CallObject ==
    /\ pc = "idle"
    /\ IsObject(heap, input[1])
    /\ Len(input) = 1
    /\ Receive("object", input, object(heap, ResultAddr, input[1]))

CallCopy ==
    /\ pc = "idle"
    /\ IsObject(heap, input[1])
    /\ Len(input) = 1
    /\ Receive("copy", input, copy(heap, ResultAddr, input[1]))

\* mergeObjects(...records) with the mappings the caller holds, or with none
CallMergeObjects ==
    /\ pc = "idle"
    /\ IsObject(heap, input[1])
    /\ \E records \in {input, <<>>} :
          Receive("mergeObjects", records, mergeObjects(heap, ResultAddr, records))

\* mergeObjectsFn(...records): the caller fixes the trailing mappings and
\* holds the function returned
CallMergeObjectsFn ==
    /\ pc = "idle"
    /\ IsObject(heap, input[1])
    /\ pc' = "closure"
    /\ call' = [op |-> "mergeObjectsFn", args |-> Tail(input), f |-> "", ok |-> TRUE,
                value |-> "closure"]
    /\ UNCHANGED <<heap, input, inserted, inv, log>>

\* the caller applies the function returned by mergeObjectsFn to its first
\* mapping
ApplyMergeObjectsFn ==
    /\ pc = "closure"
    /\ call.op = "mergeObjectsFn"
    /\ Receive("mergeObjectsFn()", <<input[1]>> \o call.args,
               mergeObjectsFn(heap, ResultAddr, call.args, input[1]))

\* mergeFn(...dictionaries) of the first revision merges the pre-supplied
\* mappings at once and returns a function closing over the merged mapping
CallMergeFn ==
    /\ pc = "idle"
    /\ IsObject(heap, input[1])
    /\ LET r == merge(heap, MergedAddr, Tail(input)) IN
         /\ heap' = r.heap
         /\ call' = [op |-> "mergeFn", args |-> Tail(input), f |-> "", ok |-> r.ok,
                    value |-> "closure"]
         /\ pc' = IF r.ok THEN "closure" ELSE "done"
    /\ UNCHANGED <<input, inserted, inv, log>>

ApplyMergeFn ==
    /\ pc = "closure"
    /\ call.op = "mergeFn"
    /\ Receive("mergeFn()", <<input[1]>> \o call.args,
               mergeFn(heap, ResultAddr, MergedAddr, <<input[1]>>))

CallEmptyObject ==
    /\ pc = "idle"
    /\ IsObject(heap, input[1])
    /\ Len(input) = 1
    /\ Receive("emptyObject", <<>>, Return(emptyObject(heap, ResultAddr), ResultAddr))

CallRecord ==
    /\ pc = "idle"
    /\ IsObject(heap, input[1])
    /\ Len(input) = 1
    /\ \E properties \in {input[1], UNDEFINED} :
          Receive("record", <<properties>>, record(heap, ResultAddr, properties))

\* the lists of pairs the caller passes to objectFromEntries
EntryLists(h, obj) ==
    {EnumerableOwnEntries(h, obj) \o more :
        more \in {<<>>, << <<"a", "v2">> >>, << <<"@s", "v1">>, <<"#1", "v2">> >>}}

CallObjectFromEntries ==
    /\ pc = "idle"
    /\ IsObject(heap, input[1])
    /\ Len(input) = 1
    /\ \E es \in EntryLists(heap, input[1]) :
          Receive("objectFromEntries", <<es>>, objectFromEntries(heap, ResultAddr, es))

CallKeys ==
    /\ pc = "idle"
    /\ Len(input) = 1
    /\ Receive("keys", input, keys(heap, input[1]))

CallValues ==
    /\ pc = "idle"
    /\ Len(input) = 1
    /\ Receive("values", input, values(heap, input[1]))

CallEntries ==
    /\ pc = "idle"
    /\ Len(input) = 1
    /\ Receive("entries", input, entries(heap, input[1]))

CallEmpty ==
    /\ pc = "idle"
    /\ Len(input) = 1
    /\ Receive("empty", input, empty(heap, input[1]))

CallMapObject ==
    /\ pc = "idle"
    /\ IsObject(heap, input[1])
    /\ Len(input) = 1
    /\ \E f \in PairFns :
          ReceiveWith("mapObject", input, f, mapObject(heap, ResultAddr, input[1], Fn(f)))

CallMapObjectKeys ==
    /\ pc = "idle"
    /\ IsObject(heap, input[1])
    /\ Len(input) = 1
    /\ \E f \in KeyFns :
          ReceiveWith("mapObjectKeys", input, f, mapObjectKeys(heap, ResultAddr, input[1], Fn(f)))

CallMapObjectValues ==
    /\ pc = "idle"
    /\ IsObject(heap, input[1])
    /\ Len(input) = 1
    /\ \E f \in ValueFns :
          ReceiveWith("mapObjectValues", input, f,
                      mapObjectValues(heap, ResultAddr, input[1], Fn(f)))

CallFilterObject ==
    /\ pc = "idle"
    /\ IsObject(heap, input[1])
    /\ Len(input) = 1
    /\ \E p \in EntryPredicates :
          ReceiveWith("filterObject", input, p, filterObject(heap, ResultAddr, input[1], Fn(p)))

CallFilterObjectKeys ==
    /\ pc = "idle"
    /\ IsObject(heap, input[1])
    /\ Len(input) = 1
    /\ \E p \in KeyPredicates :
          ReceiveWith("filterObjectKeys", input, p,
                      filterObjectKeys(heap, ResultAddr, input[1], Fn(p)))

CallFilterObjectValues ==
    /\ pc = "idle"
    /\ IsObject(heap, input[1])
    /\ Len(input) = 1
    /\ \E p \in ValuePredicates :
          ReceiveWith("filterObjectValues", input, p,
                      filterObjectValues(heap, ResultAddr, input[1], Fn(p)))

CallExcludeObjectEntries ==
    /\ pc = "idle"
    /\ IsObject(heap, input[1])
    /\ Len(input) = 1
    /\ \E p \in EntryPredicates :
          ReceiveWith("excludeObjectEntries", input, p,
                      excludeObjectEntries(heap, ResultAddr, input[1], Fn(p)))

CallExcludeObjectKeys ==
    /\ pc = "idle"
    /\ IsObject(heap, input[1])
    /\ Len(input) = 1
    /\ \E p \in KeyPredicates :
          ReceiveWith("excludeObjectKeys", input, p,
                      excludeObjectKeys(heap, ResultAddr, input[1], Fn(p)))

CallExcludeObjectValues ==
    /\ pc = "idle"
    /\ IsObject(heap, input[1])
    /\ Len(input) = 1
    /\ \E p \in ValuePredicates :
          ReceiveWith("excludeObjectValues", input, p,
                      excludeObjectValues(heap, ResultAddr, input[1], Fn(p)))

CallExcludeNullProperties ==
    /\ pc = "idle"
    /\ IsObject(heap, input[1])
    /\ Len(input) = 1
    /\ ReceiveWith("excludeNullProperties", input, "isNotNull",
                   excludeNullProperties(heap, ResultAddr, input[1]))

CallFilter ==
    /\ pc = "idle"
    /\ IsObject(heap, input[1])
    /\ Len(input) = 1
    /\ \E p \in ValuePredicates \cup {"isAThrowOnB"} :
          ReceiveWith("filter", input, p, filter(heap, ResultAddr, input[1], Fn(p)))

CallForEach ==
    /\ pc = "idle"
    /\ IsObject(heap, input[1])
    /\ Len(input) = 1
    /\ \E f \in ValueFns :
          ReceiveWith("forEach", input, f, forEach(heap, input[1], Fn(f)))

CallExcludeNull ==
    /\ pc = "idle"
    /\ IsObject(heap, input[1])
    /\ Len(input) = 1
    /\ ReceiveWith("excludeNull", input, "isNotNull", excludeNull(heap, ResultAddr, input[1]))

Receivers == {UNDEFINED, "v2", ObjectPrototype}
ArgVectors == {<<>>, <<"v1">>, <<"v2", "v1">>}

\* the caller calls the value copy returned, with a receiver and arguments
InvokeCopy ==
    /\ pc = "done"
    /\ call.op = "copy"
    /\ call.ok
    /\ heap[call.value].fn # "none"
    /\ \E this \in Receivers, argv \in ArgVectors :
          LET r == Call(heap, call.value, this, argv, log) IN
          /\ inv' = [this |-> this, args |-> argv, ok |-> r.ok, value |-> r.value]
          /\ log' = r.log
    /\ pc' = "invoked"
    /\ UNCHANGED <<heap, input, inserted, call>>

\* the caller constructs with the value copy returned: new copy(...argv)
ConstructCopy ==
    /\ pc = "done"
    /\ call.op = "copy"
    /\ call.ok
    /\ heap[call.value].fn # "none"
    /\ \E argv \in ArgVectors :
          LET r == Construct(heap, call.value, argv, log) IN
          /\ heap' = r.heap
          /\ inv' = [this |-> InstanceAddr, args |-> argv, ok |-> r.ok, value |-> r.value]
          /\ log' = r.log
    /\ pc' = "constructed"
    /\ UNCHANGED <<input, inserted, call>>

Next ==
    \/ CallObject
    \/ CallCopy
    \/ CallMergeObjects
    \/ CallMergeObjectsFn
    \/ ApplyMergeObjectsFn
    \/ CallMergeFn
    \/ ApplyMergeFn
    \/ InvokeCopy
    \/ ConstructCopy
    \/ CallEmptyObject
    \/ CallRecord
    \/ CallObjectFromEntries
    \/ CallKeys
    \/ CallValues
    \/ CallEntries
    \/ CallEmpty
    \/ CallMapObject
    \/ CallMapObjectKeys
    \/ CallMapObjectValues
    \/ CallFilterObject
    \/ CallFilterObjectKeys
    \/ CallFilterObjectValues
    \/ CallExcludeObjectEntries
    \/ CallExcludeObjectKeys
    \/ CallExcludeObjectValues
    \/ CallExcludeNullProperties
    \/ CallFilter
    \/ CallExcludeNull
    \/ CallForEach

Spec == Init /\ [][Next]_vars

-----------------------------------------------------------------------------
(* The caller that changes what it holds after the call *)

\* the functions that carry values over from their arguments
ShallowOps ==
    {"copy", "object", "mergeObjects", "mapObject", "mapObjectKeys", "mapObjectValues",
     "filterObject", "filterObjectKeys", "filterObjectValues",
     "excludeObjectEntries", "excludeObjectKeys", "excludeObjectValues"}

\* the own enumerable properties of o whose value is an object of h
StructuresIn(h, o) ==
    {i \in 1..Len(o.props) : o.props[i].enumerable /\ IsObject(h, o.props[i].value)}

\* the mappings of a merge whose values are primitive or the structure the
\* caller holds
ShallowShapes ==
    Build({PlainObj(ObjectPrototype, <<>>)}, {"a", "b"},
          [k \in {"a", "b"} |-> {"v", NestedAddr}], MaxProps)

\* the mapping o with v for its primitive values
Label(o, v) ==
    [o EXCEPT !.props = [i \in 1..Len(o.props) |->
                            IF o.props[i].value = "v" THEN [o.props[i] EXCEPT !.value = v]
                            ELSE o.props[i]]]

\* the caller holds a structure and has stored it in one of the arguments
InitShallow ==
    /\ \/ \E o \in PlainObjs \cup FunctionObjs :
             /\ StructuresIn(Place(World, <<o>>), o) # {}
             /\ heap = Place(World, <<o>>)
             /\ input = <<ArgAddr[1]>>
             /\ inserted \in InsertionOrders(o)
       \/ \E n \in 2..MaxArgs :
             \E os \in [1..n -> ShallowShapes] :
                /\ \E i \in 1..n : StructuresIn(World, os[i]) # {}
                /\ heap = Place(World, [i \in 1..n |-> Label(os[i], ArgVal[i])])
                /\ input = [i \in 1..n |-> ArgAddr[i]]
                /\ inserted = KeysOf(os[1].props)
    /\ pc = "idle"
    /\ call = NoCall
    /\ inv = NoInv
    /\ log = <<>>

\* the caller changes a structure that an argument or the result holds as
\* the value of a key: holder[k].x = "changed"
ChangeNested ==
    /\ pc = "done"
    /\ call.ok
    /\ call.op \in ShallowOps
    /\ \E holder \in {input[i] : i \in 1..Len(input)} \cup {call.value} :
          \E i \in StructuresIn(heap, heap[holder]) :
             LET p == heap[holder].props[i]
                 r == Set(heap, p.value, "x", "changed")
             IN /\ heap' = r.heap
                /\ inv' = [this |-> holder, args |-> <<p.key>>, ok |-> r.ok, value |-> p.value]
    /\ pc' = "nestedChanged"
    /\ UNCHANGED <<input, inserted, call, log>>

\* delete o[k]
Delete(o, k) == [o EXCEPT !.props = SelectSeq(o.props, LAMBDA p : p.key # k)]

\* the caller adds a top-level key to the result, or replaces or removes
\* its first enumerable one
ChangeResult ==
    /\ pc = "done"
    /\ call.ok
    /\ call.op \in ShallowOps
    /\ LET ks == SelectSeq(KeysOf(heap[call.value].props),
                          LAMBDA k : GetOwnProperty(heap[call.value], k).enumerable)
       IN \E change \in {"add", "replace", "remove"} :
             /\ change # "add" => ks # <<>>
             /\ heap' = CASE change = "add" -> Set(heap, call.value, "z", "new").heap
                          [] change = "replace" -> Set(heap, call.value, ks[1], "new").heap
                          [] change = "remove" ->
                                [heap EXCEPT ![call.value] = Delete(@, ks[1])]
             /\ inv' = [this |-> call.value, args |-> <<change>>, ok |-> TRUE, value |-> UNDEFINED]
    /\ pc' = "resultChanged"
    /\ UNCHANGED <<input, inserted, call, log>>

NextShallow ==
    \/ CallCopy
    \/ CallObject
    \/ CallMergeObjects
    \/ CallMapObject
    \/ CallMapObjectKeys
    \/ CallMapObjectValues
    \/ CallFilterObject
    \/ CallFilterObjectKeys
    \/ CallFilterObjectValues
    \/ CallExcludeObjectEntries
    \/ CallExcludeObjectKeys
    \/ CallExcludeObjectValues
    \/ ChangeNested
    \/ ChangeResult

SpecShallow == InitShallow /\ [][NextShallow]_vars

-----------------------------------------------------------------------------
(* Vocabulary of the properties *)

\* the own enumerable properties of o, as a list in the order of
\* OrdinaryOwnPropertyKeys and as a set of (key, value) pairs
EnumProps(o) == SelectSeq(o.props, LAMBDA p : p.enumerable)
EnumKeys(o) == {o.props[i].key : i \in {j \in 1..Len(o.props) : o.props[j].enumerable}}
EnumPairs(o) == {<<o.props[i].key, o.props[i].value>> :
                    i \in {j \in 1..Len(o.props) : o.props[j].enumerable}}
OwnKeys(o) == {o.props[i].key : i \in 1..Len(o.props)}
OwnValue(o, k) == o.props[CHOOSE i \in 1..Len(o.props) : o.props[i].key = k].value

AllKeys == StringKeys \cup SymbolKeys

Returned(op) == pc = "done" /\ call.op = op /\ call.ok
Result == heap[call.value]
Arg(i) == heap[call.args[i]]

\* the arguments of call that have k as an own enumerable key
Holders(k) == {i \in 1..Len(call.args) : k \in EnumKeys(Arg(i))}
Last(S) == CHOOSE i \in S : \A j \in S : j <= i

RECURSIVE AppendNew(_, _, _)
AppendNew(acc, ks, i) ==
    IF i > Len(ks) THEN acc
    ELSE AppendNew(IF \E j \in 1..Len(acc) : acc[j] = ks[i] THEN acc ELSE Append(acc, ks[i]),
                   ks, i + 1)

RECURSIVE FirstOccurrence(_, _)
\* the own enumerable keys of the first n arguments of call, each once, in
\* the order in which the argument list first shows them
FirstOccurrence(n, acc) ==
    IF n = 0 THEN acc
    ELSE AppendNew(FirstOccurrence(n - 1, acc), KeysOf(EnumProps(Arg(n))), 1)

\* the index keys of ks in ascending numeric order
Ascending(ks) ==
    LET S == {ks[i] : i \in 1..Len(ks)} IN
    [i \in 1..Cardinality(S) |->
        CHOOSE k \in S : Cardinality({x \in S : IndexValue[x] < IndexValue[k]}) = i - 1]

-----------------------------------------------------------------------------
(* Properties of merge *)

\* C1: mergeObjects returns a mapping whose keys are exactly the union of
\* the own enumerable keys, string and symbol, of its arguments, each with
\* the value it has in the last argument that contains it.
C1_MergeLastWins ==
    (pc = "done" /\ call.op = "mergeObjects") =>
        /\ call.ok
        /\ OwnKeys(Result) = UNION {EnumKeys(Arg(i)) : i \in 1..Len(call.args)}
        /\ EnumKeys(Result) = OwnKeys(Result)
        /\ \A k \in OwnKeys(Result) : OwnValue(Result, k) = OwnValue(Arg(Last(Holders(k))), k)

\* a merge of three mappings where "a" is in the first two only, so that the
\* second wins, and a symbol comes from the first alone
C1_Witness ==
    /\ Returned("mergeObjects")
    /\ Len(call.args) = 3
    /\ Holders("a") = {1, 2}
    /\ Holders("@s") = {1}
    /\ OwnValue(Result, "a") = "v2"
    /\ OwnValue(Result, "@s") = "v1"

\* C2, as claimed: the keys of the result of mergeObjects, string and symbol
\* alike, are in the order of their first occurrence across the arguments.
C2_FirstOccurrenceOrder ==
    Returned("mergeObjects") =>
        KeysOf(Result.props) = FirstOccurrence(Len(call.args), <<>>)

\* C2, amended: the keys of the result of mergeObjects are its index keys in
\* ascending numeric order, then its other string keys in the order of their
\* first occurrence across the arguments, then its symbol keys in the order
\* of their first occurrence; overwriting a key does not move it.
C2_KeyOrder ==
    Returned("mergeObjects") =>
        LET fo == FirstOccurrence(Len(call.args), <<>>) IN
        KeysOf(Result.props) =
            Ascending(SelectSeq(fo, IsIndex))
            \o SelectSeq(fo, LAMBDA k : ~IsIndex(k) /\ ~IsSymbol(k))
            \o SelectSeq(fo, IsSymbol)

\* the second mapping overwrites "a" and brings "b": "a" stays first
C2_Witness ==
    /\ Returned("mergeObjects")
    /\ Len(call.args) = 2
    /\ KeysOf(EnumProps(Arg(1))) = <<"a">>
    /\ KeysOf(EnumProps(Arg(2))) = <<"b", "a">>
    /\ KeysOf(Result.props) = <<"a", "b">>
    /\ OwnValue(Result, "a") = "v2"

\* the heap without the result of the call
BeforeCall == [a \in DOMAIN heap \ {ResultAddr} |-> heap[a]]

\* C3: mergeObjectsFn(r1, ..., rn)(m) equals mergeObjects(m, r1, ..., rn).
C3_CurriedMergeEqualsMerge ==
    (pc = "done" /\ call.op = "mergeObjectsFn()") =>
        LET r == mergeObjects(BeforeCall, ResultAddr, <<input[1]>> \o Tail(input)) IN
        /\ call.ok = r.ok
        /\ call.value = r.value
        /\ heap = r.heap

\* two mappings are pre-supplied and all three hold "a"
C3_Witness ==
    /\ Returned("mergeObjectsFn()")
    /\ Len(input) = 3
    /\ \A i \in 1..3 : "a" \in EnumKeys(heap[input[i]])
    /\ OwnValue(Result, "a") = OwnValue(heap[input[3]], "a")

\* the pre-supplied mappings of the curried call that hold k
PreSupplied(k) == {i \in 2..Len(input) : k \in EnumKeys(heap[input[i]])}

\* C4, as claimed: in the curried merge, for a key held by a pre-supplied
\* mapping and by the later-bound mapping, the later-bound value is kept.
C4_LaterBoundWins ==
    (pc = "done" /\ call.op \in {"mergeObjectsFn()", "mergeFn()"} /\ call.ok) =>
        \A k \in EnumKeys(heap[input[1]]) :
            PreSupplied(k) # {} => OwnValue(Result, k) = OwnValue(heap[input[1]], k)

\* C4, amended: in mergeObjectsFn the pre-supplied mappings take priority: a
\* key held by a pre-supplied mapping and by the later-bound mapping keeps
\* the value of the last pre-supplied mapping that holds it; only the
\* mergeFn of the first revision keeps the later-bound value.
C4_PreSuppliedWins ==
    /\ Returned("mergeObjectsFn()") =>
          \A k \in EnumKeys(heap[input[1]]) :
              PreSupplied(k) # {} =>
                  OwnValue(Result, k) = OwnValue(heap[input[Last(PreSupplied(k))]], k)
    /\ Returned("mergeFn()") =>
          \A k \in EnumKeys(heap[input[1]]) :
              PreSupplied(k) # {} => OwnValue(Result, k) = OwnValue(heap[input[1]], k)

C4_Witness ==
    /\ Returned("mergeObjectsFn()")
    /\ Len(input) = 2
    /\ "a" \in EnumKeys(heap[input[1]])
    /\ "a" \in EnumKeys(heap[input[2]])
    /\ OwnValue(heap[input[1]], "a") = "v1"
    /\ OwnValue(Result, "a") = "v2"

-----------------------------------------------------------------------------
(* The arguments and the shape of the results *)

\* C5: no library call changes a mapping that exists when it is made: the
\* keys, values, key order and prototype of every argument, and of every
\* other object, are after the call what they were before it.
C5_ArgumentsUnchanged ==
    [][\A a \in DOMAIN heap : a \in DOMAIN heap' /\ heap'[a] = heap[a]]_vars

\* a call has returned a mapping that differs from its argument
C5_Witness ==
    /\ Returned("filterObjectKeys")
    /\ call.f = "isA"
    /\ EnumKeys(Arg(1)) = {"a", "b"}
    /\ OwnKeys(Result) = {"a"}

NullRootedOps ==
    {"object", "record", "emptyObject", "objectFromEntries", "mergeObjects",
     "mergeObjectsFn()", "mapObject", "mapObjectKeys", "mapObjectValues",
     "filterObject", "filterObjectKeys", "filterObjectValues",
     "excludeObjectEntries", "excludeObjectKeys", "excludeObjectValues",
     "excludeNullProperties"}

\* C6: every mapping the constructors, the merge, the transforms and the
\* selections return has no prototype, so a lookup of a key it does not own
\* yields undefined, whatever the prototype of the argument.
C6_ResultNullRooted ==
    (pc = "done" /\ call.ok /\ call.op \in NullRootedOps) =>
        /\ Result.proto = NULL
        /\ \A k \in AllKeys : k \notin OwnKeys(Result) => Get(heap, call.value, k) = UNDEFINED

\* the argument inherits "a", the result of the transform does not
C6_Witness ==
    /\ Returned("mapObjectValues")
    /\ Arg(1).proto = APrototype
    /\ "a" \notin OwnKeys(Arg(1))
    /\ Get(heap, call.args[1], "a") = "inherited"
    /\ Len(Result.props) > 0
    /\ Get(heap, call.value, "a") = UNDEFINED

-----------------------------------------------------------------------------
(* Properties of copy and object *)

\* C7: copy(m) is a different allocation from m and has exactly the own
\* enumerable properties of m, string-keyed and symbol-keyed, with the same
\* values, whether m is callable or not.
C7_CopySameProperties ==
    (pc = "done" /\ call.op = "copy") =>
        /\ call.ok
        /\ call.value # call.args[1]
        /\ EnumPairs(Result) = EnumPairs(Arg(1))

\* C8: the prototype of copy(m) is the prototype of m itself, so a member
\* found by inheritance on the copy is the one found on the original.
C8_CopySharesPrototype ==
    Returned("copy") =>
        /\ Result.proto = Arg(1).proto
        /\ \A k \in AllKeys \ {"__proto__"} :
              (k \notin OwnKeys(Arg(1)) /\ k \notin OwnKeys(Result)) =>
                  Get(heap, call.value, k) = Get(heap, call.args[1], k)

\* what calling g itself with the receiver and arguments of inv gives
Direct(g) ==
    IF heap[g].fn = "class" THEN [ok |-> FALSE, value |-> "TypeError"]
    ELSE Body(heap[g].body, inv.this, inv.args)

C10_ObjectIsInertData ==
    (pc = "done" /\ call.op = "object") =>
        /\ call.ok
        /\ Result.proto = NULL
        /\ Result.fn = "none"
        /\ OwnKeys(Result) = EnumKeys(Result)
        /\ EnumPairs(Result) = EnumPairs(Arg(1))

\* the argument is a function with a string-keyed and a symbol-keyed property
C10_Witness ==
    /\ Returned("object")
    /\ Arg(1).fn = "arrow"
    /\ EnumKeys(Arg(1)) = {"a", "@s"}
    /\ Result.fn = "none"
    /\ EnumKeys(Result) = {"a", "@s"}

-----------------------------------------------------------------------------
(* Properties of transform and selection *)

\* the own enumerable string-keyed properties of the argument of call, in
\* enumeration order
ArgEntries == SelectSeq(Arg(1).props, LAMBDA p : p.enumerable /\ IsString(p.key))
ArgKeys == [i \in 1..Len(ArgEntries) |-> ArgEntries[i].key]

\* what the function the caller passed returns for the arguments argv
Returns(argv) == UserFn(call.f, argv).value

\* the pair the function passed to mapObject returns for the i-th entry
MapPair(i) == Returns(<<ArgEntries[i].key, ArgEntries[i].value>>)

\* C11: mapObject(m, f) is built from the pairs f(k, v) of the own
\* enumerable string-keyed entries of m in enumeration order: its keys are
\* the property keys f returned (strings, numbers or symbols), and at each
\* key it holds the value f returned for the last entry given that key.
C11_MapObjectLastWins ==
    Returned("mapObject") =>
        /\ OwnKeys(Result) = {ToPropertyKey(MapPair(i)[1]) : i \in 1..Len(ArgEntries)}
        /\ EnumKeys(Result) = OwnKeys(Result)
        /\ \A k \in OwnKeys(Result) :
              OwnValue(Result, k) =
                  MapPair(Last({i \in 1..Len(ArgEntries) : ToPropertyKey(MapPair(i)[1]) = k}))[2]

\* f gave two entries with different values the same key
C11_Witness ==
    /\ Returned("mapObject")
    /\ call.f = "pairConstA"
    /\ Len(ArgEntries) = 2
    /\ ArgEntries[1].value # ArgEntries[2].value
    /\ OwnKeys(Result) = {"a"}
    /\ OwnValue(Result, "a") = ArgEntries[2].value

\* C12: mapObjectKeys(m, f) equals mapObject(m, (k, v) => [f(k), v]): both
\* return, or both raise the same value, and the mapping returned holds every
\* value unchanged under the key f(k), the value of the later entry where f
\* gives two keys the same new key.
C12_MapObjectKeysIsMapObject ==
    (pc = "done" /\ call.op = "mapObjectKeys") =>
        LET r == mapObject(BeforeCall, ResultAddr, call.args[1], KeyedPair(Fn(call.f))) IN
        /\ call.ok = r.ok
        /\ call.value = r.value
        /\ heap = r.heap
        /\ call.ok =>
              /\ OwnKeys(Result) =
                    {ToPropertyKey(Returns(<<ArgKeys[i]>>)) : i \in 1..Len(ArgKeys)}
              /\ \A k \in OwnKeys(Result) :
                    OwnValue(Result, k) =
                        ArgEntries[Last({i \in 1..Len(ArgKeys) :
                                            ToPropertyKey(Returns(<<ArgKeys[i]>>)) = k})].value

\* f sent two keys with different values to the same new key
C12_Witness ==
    /\ Returned("mapObjectKeys")
    /\ call.f = "constA"
    /\ ArgKeys = <<"a", "b">>
    /\ ArgEntries[1].value # ArgEntries[2].value
    /\ OwnKeys(Result) = {"a"}
    /\ OwnValue(Result, "a") = ArgEntries[2].value

\* the own properties of the result of call as (key, value) pairs, in order
ResultPairs == [i \in 1..Len(Result.props) |-> <<Result.props[i].key, Result.props[i].value>>]

\* C13: mapObjectValues(m, f) has exactly the own enumerable string keys of
\* m, in the same order, and at each key k the value f(m[k], k); with the
\* identity for f it has the entries of m, in the same order.
C13_MapObjectValuesKeepsKeys ==
    Returned("mapObjectValues") =>
        /\ KeysOf(Result.props) = ArgKeys
        /\ EnumKeys(Result) = OwnKeys(Result)
        /\ \A i \in 1..Len(ArgKeys) :
              Result.props[i].value = Returns(<<ArgEntries[i].value, ArgKeys[i]>>)
        /\ call.f = "first" =>
              ResultPairs = [i \in 1..Len(ArgKeys) |-> <<ArgKeys[i], ArgEntries[i].value>>]

\* the identity was mapped over a mapping with an index key and a name
C13_Witness ==
    /\ Returned("mapObjectValues")
    /\ call.f = "first"
    /\ ArgKeys = <<"1", "a">>
    /\ ResultPairs = <<<<"1", ArgEntries[1].value>>, <<"a", ArgEntries[2].value>>>>

\* the arguments the selection op hands its predicate for the entry e
PredicateArgs(op, e) ==
    CASE op \in {"filterObject", "excludeObjectEntries"} -> <<e.key, e.value>>
      [] op \in {"filterObjectKeys", "excludeObjectKeys"} -> <<e.key>>
      [] op \in {"filterObjectValues", "excludeObjectValues", "excludeNullProperties"} ->
            <<e.value>>

\* the entries of the argument of call that its predicate accepts, in order
Accepted == SelectSeq(ArgEntries, LAMBDA e : Returns(PredicateArgs(call.op, e)))
Rejected == SelectSeq(ArgEntries, LAMBDA e : ~Returns(PredicateArgs(call.op, e)))

PairsOf(es) == [i \in 1..Len(es) |-> <<es[i].key, es[i].value>>]

\* C14: filterObject(m, p), filterObjectKeys(m, p) and
\* filterObjectValues(m, p) return a mapping that holds exactly the own
\* enumerable string-keyed entries of m for which p(k, v), p(k) and p(v) is
\* true, with their values, in the order they have in m, and no other key.
C14_FilterKeepsAccepted ==
    (\E op \in {"filterObject", "filterObjectKeys", "filterObjectValues"} : Returned(op)) =>
        /\ ResultPairs = PairsOf(Accepted)
        /\ EnumKeys(Result) = OwnKeys(Result)

\* of two entries the predicate accepted the first and rejected the second
C14_Witness ==
    /\ Returned("filterObject")
    /\ call.f = "isV1"
    /\ ArgKeys = <<"a", "b">>
    /\ ArgEntries[1].value = "v1"
    /\ ResultPairs = <<<<"a", "v1">>>>

ExcludeOps == {"excludeObjectEntries", "excludeObjectKeys", "excludeObjectValues"}

\* the filter an exclude function is the counterpart of, applied as the
\* call was, with the predicate p
FilterOf(op, p) ==
    CASE op = "excludeObjectEntries" -> filterObject(BeforeCall, ResultAddr, call.args[1], p)
      [] op = "excludeObjectKeys" -> filterObjectKeys(BeforeCall, ResultAddr, call.args[1], p)
      [] op = "excludeObjectValues" -> filterObjectValues(BeforeCall, ResultAddr, call.args[1], p)

\* the predicate written by the caller that is the negation of the one named
Opposite(p) == IF p = "always" THEN "never" ELSE "always"

\* C15: excludeObjectEntries(m, p), excludeObjectKeys(m, p) and
\* excludeObjectValues(m, p) equal filterObject, filterObjectKeys and
\* filterObjectValues applied to m with the negation of p: they raise when
\* p raises, and otherwise hold the entries of m for which p is false, in
\* the order of m, as the filter with the opposite predicate does.
C15_ExcludeIsFilterOfNegation ==
    (pc = "done" /\ call.op \in ExcludeOps) =>
        /\ call.ok = (\A i \in 1..Len(ArgEntries) :
                         UserFn(call.f, PredicateArgs(call.op, ArgEntries[i])).ok)
        /\ call.ok =>
              /\ ResultPairs = PairsOf(Rejected)
              /\ EnumKeys(Result) = OwnKeys(Result)
              /\ Result.proto = NULL
        /\ call.f \in {"always", "never"} =>
              LET r == FilterOf(call.op, Fn(Opposite(call.f))) IN
              /\ r.ok
              /\ r.value = call.value
              /\ r.heap[r.value] = Result

\* of two entries the predicate was true of the first only, and the second
\* is the one kept
C15_Witness ==
    /\ Returned("excludeObjectKeys")
    /\ call.f = "isA"
    /\ ArgKeys = <<"a", "b">>
    /\ ResultPairs = <<<<"b", ArgEntries[2].value>>>>

\* the mapping excludeObjectKeys returns for the argument and the predicate
\* of call
Excluded ==
    LET r == excludeObjectKeys(BeforeCall, ResultAddr, call.args[1], Fn(call.f)) IN
    r.heap[r.value]

SetOf(s) == {s[i] : i \in 1..Len(s)}

\* C16: for a predicate p that returns, filterObjectKeys(m, p) and
\* excludeObjectKeys(m, p) partition the string-keyed entries of m: their
\* key sets are disjoint, the union of the key sets is the set of keys(m),
\* and each holds at its keys the value m has.
C16_FilterExcludePartition ==
    Returned("filterObjectKeys") =>
        /\ OwnKeys(Result) \cap OwnKeys(Excluded) = {}
        /\ OwnKeys(Result) \cup OwnKeys(Excluded) = SetOf(keys(heap, call.args[1]).value)
        /\ \A k \in OwnKeys(Result) : OwnValue(Result, k) = OwnValue(Arg(1), k)
        /\ \A k \in OwnKeys(Excluded) : OwnValue(Excluded, k) = OwnValue(Arg(1), k)

\* the predicate split a mapping of two entries into one and one
C16_Witness ==
    /\ Returned("filterObjectKeys")
    /\ call.f = "isA"
    /\ ArgKeys = <<"1", "a">>
    /\ OwnKeys(Result) = {"a"}
    /\ OwnKeys(Excluded) = {"1"}

\* C17: excludeNullProperties(m), and excludeNull(m) of the earlier
\* revision, return exactly the string-keyed entries of m whose value is
\* neither null nor undefined, in the order of m; every other value, the
\* falsy 0 included, is kept with its key.
C17_ExcludeNullKeepsNonNull ==
    (pc = "done" /\ call.op \in {"excludeNullProperties", "excludeNull"}) =>
        /\ call.ok
        /\ ResultPairs =
              PairsOf(SelectSeq(ArgEntries, LAMBDA e : e.value \notin {NULL, UNDEFINED}))
        /\ EnumKeys(Result) = OwnKeys(Result)

\* a mapping with the value 0 and the value undefined: 0 is kept
C17_Witness ==
    /\ Returned("excludeNullProperties")
    /\ PairsOf(ArgEntries) = <<<<"a", Zero>>, <<"b", UNDEFINED>>>>
    /\ ResultPairs = <<<<"a", Zero>>>>

-----------------------------------------------------------------------------
(* Properties of enumeration *)

\* what keys, values and entries return for the argument of call
KeysNow == keys(heap, call.args[1]).value
ValuesNow == values(heap, call.args[1]).value
EntriesNow == entries(heap, call.args[1]).value

\* C18: keys(m), values(m) and entries(m) have the same length, and for
\* every index i, entries(m)[i] is the pair (keys(m)[i], values(m)[i]) with
\* values(m)[i] equal to m[keys(m)[i]].
C18_EntriesZipKeysValues ==
    (\E op \in {"keys", "values", "entries"} : Returned(op)) =>
        /\ call.op = "keys" => call.value = KeysNow
        /\ call.op = "values" => call.value = ValuesNow
        /\ call.op = "entries" => call.value = EntriesNow
        /\ Len(KeysNow) = Len(EntriesNow)
        /\ Len(ValuesNow) = Len(EntriesNow)
        /\ \A i \in 1..Len(EntriesNow) :
              /\ EntriesNow[i] = <<KeysNow[i], ValuesNow[i]>>
              /\ ValuesNow[i] = Get(heap, call.args[1], KeysNow[i])

\* entries of a function with an enumerable property, next to its own
\* length and name, which are not enumerable
C18_Witness ==
    /\ Returned("entries")
    /\ Arg(1).fn = "arrow"
    /\ Len(call.value) = 1
    /\ call.value[1] = <<"a", Zero>>
    /\ KeysNow = <<"a">>
    /\ ValuesNow = <<Zero>>

\* the own enumerable string keys of the argument of call, in the order in
\* which they were created on it
InsertedKeys ==
    SelectSeq(inserted, LAMBDA k : IsString(k) /\ GetOwnProperty(Arg(1), k).enumerable)

\* what keys, values and entries return when they list the keys ks
Listing(op, ks) ==
    CASE op = "keys" -> ks
      [] op = "values" -> [i \in 1..Len(ks) |-> OwnValue(Arg(1), ks[i])]
      [] op = "entries" -> [i \in 1..Len(ks) |-> <<ks[i], OwnValue(Arg(1), ks[i])>>]

\* C19, as claimed: keys(m), values(m) and entries(m) list the own
\* enumerable string-keyed properties of m in the order in which the keys
\* were inserted into m, also when keys are integers encoded as strings.
C19_InsertionOrder ==
    (\E op \in {"keys", "values", "entries"} : Returned(op)) =>
        call.value = Listing(call.op, InsertedKeys)

\* C19, amended: keys(m), values(m) and entries(m) list the own enumerable
\* string-keyed properties of m with the integer-index keys first, in
\* ascending numeric order, and then the other string keys in the order in
\* which they were inserted into m.
C19_IndexKeysThenInsertionOrder ==
    (\E op \in {"keys", "values", "entries"} : Returned(op)) =>
        call.value = Listing(call.op, Ascending(SelectSeq(InsertedKeys, IsIndex))
                                      \o SelectSeq(InsertedKeys, IsName))

\* the key a was inserted before the key 1, and keys lists 1 first
C19_Witness ==
    /\ Returned("keys")
    /\ inserted = <<"a", "1">>
    /\ call.value = <<"1", "a">>

EnumerationOps == {"keys", "values", "entries"}

\* the argument of call is absent: null or undefined
Absent == call.args[1] \in {NULL, UNDEFINED}

\* the argument of call has no own enumerable string-keyed property
EmptyMapping == ~Absent /\ ArgEntries = <<>>

\* C20, as claimed: keys, values and entries have no error outcome: called
\* on an empty mapping and called on an absent mapping (null or undefined),
\* each returns an empty sequence and raises nothing.
C20_NoErrorOutcome ==
    (pc = "done" /\ call.op \in EnumerationOps) =>
        /\ call.ok
        /\ (Absent \/ EmptyMapping) => call.value = <<>>

\* C20, amended: called on an empty mapping, keys, values and entries each
\* return an empty sequence and raise nothing; called on an absent mapping
\* (null or undefined), each raises a TypeError and returns nothing.
C20_AbsentRaisesEmptyReturns ==
    (pc = "done" /\ call.op \in EnumerationOps) =>
        /\ Absent => (~call.ok /\ call.value = "TypeError")
        /\ ~Absent => call.ok
        /\ EmptyMapping => call.value = <<>>
        /\ heap = BeforeCall

\* keys was called on null and raised
C20_Witness ==
    /\ pc = "done"
    /\ call.op = "keys"
    /\ call.args = <<NULL>>
    /\ ~call.ok
    /\ call.value = "TypeError"

-----------------------------------------------------------------------------
(* Properties of the calls made to the function of the caller *)

TraversalOps ==
    {"mapObject", "mapObjectKeys", "mapObjectValues",
     "filterObject", "filterObjectKeys", "filterObjectValues",
     "excludeObjectEntries", "excludeObjectKeys", "excludeObjectValues",
     "excludeNullProperties", "filter", "excludeNull"}

\* the arguments the traversal op hands the function of the caller for the
\* entry e
CallArgs(op, e) ==
    CASE op \in {"mapObject", "filterObject", "excludeObjectEntries"} -> <<e.key, e.value>>
      [] op \in {"mapObjectKeys", "filterObjectKeys", "excludeObjectKeys"} -> <<e.key>>
      [] op \in {"mapObjectValues", "filter", "excludeNull"} -> <<e.value, e.key>>
      [] op \in {"filterObjectValues", "excludeObjectValues", "excludeNullProperties"} ->
            <<e.value>>

\* the own string keys of the argument of call that are enumerable
OwnEnumerableStringKeys ==
    {k \in OwnKeys(Arg(1)) : IsString(k) /\ GetOwnProperty(Arg(1), k).enumerable}

\* C21: the string-keyed operations never see or carry over the
\* symbol-keyed, inherited or non-enumerable properties of their input:
\* keys, values and entries omit them, the function passed to a map or a
\* filter is never called for them, a filter with an always-true predicate
\* and mapObjectValues with the identity return a mapping without them, and
\* empty(m) is true exactly when keys(m) is empty.
C21_StringKeyedOnly ==
    /\ Returned("keys") => SetOf(call.value) = OwnEnumerableStringKeys
    /\ Returned("values") => Len(call.value) = Cardinality(OwnEnumerableStringKeys)
    /\ Returned("entries") =>
          {call.value[i][1] : i \in 1..Len(call.value)} = OwnEnumerableStringKeys
    /\ (pc = "done" /\ call.op \in TraversalOps) =>
          \A i \in 1..Len(log) :
              \E e \in SetOf(ArgEntries) :
                  /\ e.key \in OwnEnumerableStringKeys
                  /\ log[i].args = CallArgs(call.op, e)
    /\ ((\E op \in {"filterObject", "filterObjectKeys", "filterObjectValues", "filter"} :
            Returned(op) /\ call.f = "always")
        \/ (Returned("mapObjectValues") /\ call.f = "first")) =>
          OwnKeys(Result) = OwnEnumerableStringKeys
    /\ Returned("empty") => (call.value <=> OwnEnumerableStringKeys = {})

\* a mapping that inherits an enumerable property and has a property that
\* is not enumerable and a symbol-keyed property went through a filter that
\* accepts everything: the predicate was not called and nothing is kept
C21_Witness ==
    /\ Returned("filterObject")
    /\ call.f = "always"
    /\ Arg(1).proto = APrototype
    /\ OwnKeys(Arg(1)) = {"b", "@s"}
    /\ EnumKeys(Arg(1)) = {"@s"}
    /\ log = <<>>
    /\ OwnKeys(Result) = {}

CallbackOps == TraversalOps \cup {"forEach"}

\* the arguments op hands the function of the caller for the entry e
HandedTo(op, e) == IF op = "forEach" THEN <<e.value, e.key>> ELSE CallArgs(op, e)

\* what the function of the caller does for the i-th entry of the argument
Reply(i) == UserFn(call.f, HandedTo(call.op, ArgEntries[i]))

\* the entries for which the function of the caller raises, and the first
Failing == {i \in 1..Len(ArgEntries) : ~Reply(i).ok}
FirstFailing == CHOOSE i \in Failing : \A j \in Failing : i <= j

\* the calls the function of the caller receives for the first n entries
CallsFor(n) == [i \in 1..n |-> CallEntry(call.f, UNDEFINED, HandedTo(call.op, ArgEntries[i]))]

\* C22: when the function or predicate of the caller raises during a map, a
\* filter, an exclude or forEach, the library call raises that same value,
\* returns no result, has called the function for the entries up to the
\* failing one only, and leaves the input mapping as it was.
C22_FailurePropagates ==
    [][(pc' = "done" /\ call'.op \in CallbackOps /\ pc = "idle") =>
          /\ call'.ok = (Failing' = {})
          /\ ~call'.ok =>
                /\ call'.value = Reply(FirstFailing)'.value
                /\ ~IsObject(heap', call'.value)
                /\ log' = CallsFor(FirstFailing)'
                /\ heap'[input[1]] = heap[input[1]]
                /\ \A a \in DOMAIN heap : heap'[a] = heap[a]]_vars

\* the function raised for the second of two entries, after one call
C22_Witness ==
    /\ pc = "done"
    /\ call.op = "mapObject"
    /\ call.f = "pairThrowOnB"
    /\ ~call.ok
    /\ call.value = "boom"
    /\ ArgKeys = <<"a", "b">>
    /\ Len(log) = 2
    /\ ResultAddr \notin DOMAIN heap

-----------------------------------------------------------------------------
(* Properties of the references kept *)

\* the objects the library has created, and the arguments of the caller
Created == {ResultAddr, TempAddr, MergedAddr} \cap DOMAIN heap
Arguments == {input[i] : i \in 1..Len(input)} \cap DOMAIN heap

\* the values of the own properties of o
ValuesOf(o) == {o.props[i].value : i \in 1..Len(o.props)}

\* every reference the object o holds: its prototype, the function it
\* closes over, and the values of its properties
Refs(o) == {o.proto, o.target} \cup ValuesOf(o)

\* a non-curried library function has returned
NonCurried == pc = "done" /\ call.ok /\ call.op \notin {"mergeObjectsFn()", "mergeFn()"}

ArgumentValues == UNION {{p[2] : p \in EnumPairs(heap[g])} : g \in Arguments}

-----------------------------------------------------------------------------
(* Properties of construction with a copy *)

RECURSIVE InChain(_, _, _)
\* p is on the prototype chain of the object at a
InChain(h, a, p) ==
    IF ~IsObject(h, a) THEN FALSE
    ELSE h[a].proto = p \/ InChain(h, h[a].proto, p)

\* v instanceof C
InstanceOf(h, v, C) == InChain(h, v, Get(h, C, "prototype"))

\* C24: when the input of copy is a class, the copy is newable, and
\* constructing with the copy succeeds and yields an instance of a subclass
\* of the input class with no overrides: an instance of the original class,
\* initialised by the original constructor.
C24_CopyConstructsSubclass ==
    /\ (Returned("copy") /\ Arg(1).fn = "class") => Result.fn = "wrapper"
    /\ (pc = "constructed" /\ Arg(1).fn = "class") =>
          /\ inv.ok
          /\ IsObject(heap, inv.value)
          /\ InstanceOf(heap, inv.value, call.args[1])
          /\ InstanceOf(heap, inv.value, call.value)

-----------------------------------------------------------------------------
(* The caller whose function changes the mapping it is called for *)

InitEffects ==
    /\ \E o \in PlainObjs \cup FunctionObjs :
          /\ heap = Place(World, <<o>>)
          /\ input = <<Captured>>
          /\ inserted \in InsertionOrders(o)
    /\ pc = "idle"
    /\ call = NoCall
    /\ inv = NoInv
    /\ log = <<>>

\* the function with a side effect the caller passes op
ChangingFn(op) ==
    CASE op = "mapObject" -> "pairChangingB"
      [] op \in {"mapObjectKeys", "mapObjectValues", "forEach"} -> "firstChangingB"
      [] OTHER -> "alwaysChangingB"

\* the caller passes a traversal a function that stores in the mapping
\* being traversed
CallChanging ==
    /\ pc = "idle"
    /\ Len(input) = 1
    /\ \E op \in {"mapObject", "mapObjectKeys", "mapObjectValues", "filterObject",
                   "filterObjectKeys", "filterObjectValues", "excludeObjectEntries",
                   "excludeObjectKeys", "excludeObjectValues", "filter", "forEach"} :
          LET f == Fn(ChangingFn(op))
              m == input[1]
          IN ReceiveWith(op, input, f.name,
                CASE op = "mapObject" -> mapObject(heap, ResultAddr, m, f)
                  [] op = "mapObjectKeys" -> mapObjectKeys(heap, ResultAddr, m, f)
                  [] op = "mapObjectValues" -> mapObjectValues(heap, ResultAddr, m, f)
                  [] op = "filterObject" -> filterObject(heap, ResultAddr, m, f)
                  [] op = "filterObjectKeys" -> filterObjectKeys(heap, ResultAddr, m, f)
                  [] op = "filterObjectValues" -> filterObjectValues(heap, ResultAddr, m, f)
                  [] op = "excludeObjectEntries" -> excludeObjectEntries(heap, ResultAddr, m, f)
                  [] op = "excludeObjectKeys" -> excludeObjectKeys(heap, ResultAddr, m, f)
                  [] op = "excludeObjectValues" -> excludeObjectValues(heap, ResultAddr, m, f)
                  [] op = "filter" -> filter(heap, ResultAddr, m, f)
                  [] op = "forEach" -> forEach(heap, m, f))

NextEffects ==
    \/ CallMapObject
    \/ CallMapObjectKeys
    \/ CallMapObjectValues
    \/ CallFilterObject
    \/ CallFilterObjectKeys
    \/ CallFilterObjectValues
    \/ CallExcludeObjectEntries
    \/ CallExcludeObjectKeys
    \/ CallExcludeObjectValues
    \/ CallExcludeNullProperties
    \/ CallFilter
    \/ CallForEach
    \/ CallExcludeNull
    \/ CallChanging

SpecEffects == InitEffects /\ [][NextEffects]_vars

-----------------------------------------------------------------------------

(* Calls in flight at once on the same mappings *)

\* the threads of execution that call the library
Threads == {1, 2}

\* const result = record(): each call of mergeObjects allocates its own
\* result, as each call of emptyObject() in objectFromEntries does
Allocation(t) == <<"result", "result2">>[t]

\* the object made by Object.fromEntries(entries) in every call of
\* objectFromEntries, kept in one place shared by all the calls
ScratchShared(t) == TempAddr

\* Object.fromEntries(entries): each call of objectFromEntries makes its own
\* object
Scratch(t) == <<"tmp", "tmp2">>[t]

\* the mappings the threads share
SharedShapes ==
    Build({PlainObj(ObjectPrototype, <<>>)}, {"a", "b"}, [k \in {"a", "b"} |-> {"v"}], MaxProps)

Reverse(s) == [i \in 1..Len(s) |-> s[Len(s) + 1 - i]]

\* a thread that has made no call; overlap records that the thread took a
\* step of its call while another thread was in the middle of one
Idle ==
    [op |-> "none", args |-> <<>>, i |-> 0, ok |-> TRUE, value |-> UNDEFINED,
     overlap |-> FALSE]

InFlight(t) == pc[t] \notin {"idle", "done"}

InitInterleaved ==
    /\ \E n \in 2..MaxArgs :
          \E os \in [1..n -> SharedShapes] :
             /\ heap = Place(World, [i \in 1..n |-> Revalue(os[i], ArgVal[i])])
             /\ input = [i \in 1..n |-> ArgAddr[i]]
             /\ inserted = KeysOf(os[1].props)
    /\ pc = [t \in Threads |-> "idle"]
    /\ call = [t \in Threads |-> Idle]
    /\ inv = NoInv
    /\ log = <<>>

\* thread t moves to the position p with the heap h and its call as c
Step(t, p, h, c) ==
    /\ heap' = h
    /\ pc' = [pc EXCEPT ![t] = p]
    /\ call' = [call EXCEPT ![t] =
                    [c EXCEPT !.overlap = @ \/ \E u \in Threads \ {t} : InFlight(u)]]
    /\ UNCHANGED <<input, inserted, inv, log>>

\* thread t calls mergeObjects(...records), which allocates its result
BeginMergeObjects(t) ==
    /\ pc[t] = "idle"
    /\ \E records \in {input, Reverse(input)} :
          Step(t, "loop", record(heap, Allocation(t), UNDEFINED).heap,
               [Idle EXCEPT !.op = "mergeObjects", !.args = records, !.i = 1,
                            !.value = Allocation(t)])

\* one turn of the loop of mergeObjects: Object.assign(result, records[i])
AssignRecord(t) ==
    /\ pc[t] = "loop"
    /\ call[t].i <= Len(call[t].args)
    /\ LET r == ObjectAssign(heap, call[t].value, call[t].args[call[t].i]) IN
       Step(t, IF r.ok THEN "loop" ELSE "done", r.heap,
            [call[t] EXCEPT !.i = @ + 1, !.ok = r.ok])

\* the loop of mergeObjects is over: return result
ReturnMerged(t) ==
    /\ pc[t] = "loop"
    /\ call[t].i > Len(call[t].args)
    /\ Step(t, "done", heap, call[t])

\* thread t calls objectFromEntries(entries) with the entries of one of the
\* shared mappings; emptyObject() is evaluated first
BeginObjectFromEntries(t) ==
    /\ pc[t] = "idle"
    /\ \E i \in 1..2 :
          Step(t, "fromEntries", emptyObject(heap, Allocation(t)),
               [Idle EXCEPT !.op = "objectFromEntries",
                            !.args = <<EnumerableOwnEntries(heap, input[i])>>,
                            !.value = Allocation(t)])

\* Object.fromEntries(entries)
FromEntries(t) ==
    /\ pc[t] = "fromEntries"
    /\ Step(t, "assign", ObjectFromEntries(heap, Scratch(t), call[t].args[1]), call[t])

\* Object.assign(emptyObject(), Object.fromEntries(entries)), and return
AssignEntries(t) ==
    /\ pc[t] = "assign"
    /\ LET r == ObjectAssign(heap, call[t].value, Scratch(t)) IN
       Step(t, "done", r.heap, [call[t] EXCEPT !.ok = r.ok])

NextInterleaved ==
    \E t \in Threads :
       \/ BeginMergeObjects(t)
       \/ AssignRecord(t)
       \/ ReturnMerged(t)
       \/ BeginObjectFromEntries(t)
       \/ FromEntries(t)
       \/ AssignEntries(t)

\* two calls whose steps are taken in any order
SpecInterleaved == InitInterleaved /\ [][NextInterleaved]_vars

-----------------------------------------------------------------------------
(* Properties of the values shared by the arguments and the result *)

\* the own enumerable properties of o whose value is an object, as pairs
Structures(o) == {p \in EnumPairs(o) : IsObject(heap, p[2])}

\* the functions whose result keeps the value of a key under that key
SameKeyOps ==
    {"copy", "object", "mergeObjects", "filterObject", "filterObjectKeys",
     "filterObjectValues", "excludeObjectEntries", "excludeObjectKeys", "excludeObjectValues"}

\* the result keeps the key k of its arguments with the value of the last
\* argument that holds it
Kept(k) == Holders(k) # {} /\ k \in EnumKeys(Result)

\* what a read of holder[k].x gives
Seen(holder, k) == Get(heap, OwnValue(heap[holder], k), "x")

\* a structure held by the result is the one an argument holds, under the
\* same key where the function keeps keys
SharedByReference ==
    (pc = "done" /\ call.ok /\ call.op \in ShallowOps) =>
        /\ \A p \in Structures(Result) :
              /\ p[2] \in ArgumentValues
              /\ call.op \in SameKeyOps => p \in EnumPairs(Arg(Last(Holders(p[1]))))
        /\ call.op \in {"object", "mergeObjects"} =>
              \A k \in AllKeys :
                 Holders(k) # {} =>
                    OwnValue(Result, k) = OwnValue(Arg(Last(Holders(k))), k)

\* a change made to a structure through one of the two is read through the
\* other
ChangeVisible ==
    (pc = "nestedChanged" /\ call.op \in SameKeyOps) =>
        LET k == inv.args[1] IN
        /\ Get(heap, inv.value, "x") = "changed"
        /\ (Kept(k) /\ call.args[Last(Holders(k))] = inv.this) =>
              Seen(call.value, k) = "changed"
        /\ inv.this = call.value =>
              /\ Holders(k) # {}
              /\ Seen(call.args[Last(Holders(k))], k) = "changed"

\* C25: copy, object, mergeObjects, the mapObject functions and the filter
\* and exclude functions are shallow: a value of the result that is a
\* structure is the same reference as the value of the input, so a change
\* made to the structure through the input is read through the result and
\* the other way round, while adding, removing or replacing a top-level key
\* of the result never changes an input.
C25_Shallow ==
    /\ [](SharedByReference /\ ChangeVisible)
    /\ [][pc' = "resultChanged" =>
             \A g \in Arguments : heap'[g] = heap[g]]_vars

\* the structure the first of two merged mappings holds at a key was
\* changed through that mapping, and the change is read through the result
C25_Witness ==
    /\ pc = "nestedChanged"
    /\ call.op = "mergeObjects"
    /\ Len(input) = 2
    /\ inv.this = ArgAddr[1]
    /\ inv.args = <<"a">>
    /\ inv.value = NestedAddr
    /\ call.args = input
    /\ "a" \in OwnKeys(Result)
    /\ OwnValue(Result, "a") = NestedAddr
    /\ Seen(call.value, "a") = "changed"

-----------------------------------------------------------------------------
(* Properties of the calls in flight at once *)

\* the heap without what the calls in flight have allocated
SharedHeap ==
    [a \in DOMAIN heap \ UNION {{Allocation(t), Scratch(t), TempAddr} : t \in Threads}
        |-> heap[a]]

\* the outcome of the call of thread t made with no other call in flight
Alone(t) ==
    IF call[t].op = "mergeObjects"
    THEN mergeObjects(SharedHeap, Allocation(t), call[t].args)
    ELSE objectFromEntries(SharedHeap, Allocation(t), call[t].args[1])

SameAsAlone ==
    \A t \in Threads :
       pc[t] = "done" =>
          /\ call[t].ok = Alone(t).ok
          /\ call[t].value = Alone(t).value
          /\ heap[call[t].value] = Alone(t).heap[Alone(t).value]

DistinctAllocations ==
    \A t \in Threads :
       pc[t] = "done" =>
          /\ call[t].value \notin Arguments
          /\ \A u \in Threads \ {t} : pc[u] = "done" => call[u].value # call[t].value

\* C26: calls of the library that share their input mappings may have their
\* steps taken in any order: each call returns what it returns when no
\* other call is in flight, no step changes a shared input, and the results
\* are allocations distinct from one another and from the inputs.
C26_InterleavingSafe ==
    /\ [](SameAsAlone /\ DistinctAllocations)
    /\ [][\A g \in Arguments : heap'[g] = heap[g]]_vars

\* a mergeObjects and an objectFromEntries have both returned, each having
\* taken steps while the other was in the middle of its call, and their
\* results differ
C26_Witness ==
    /\ \A t \in Threads : pc[t] = "done" /\ call[t].overlap
    /\ call[1].op = "mergeObjects"
    /\ call[2].op = "objectFromEntries"
    /\ \A i \in 1..Len(input) : "a" \in EnumKeys(heap[input[i]])
    /\ heap[call[1].value].props # <<>>
    /\ heap[call[2].value].props # <<>>
    /\ heap[call[1].value] # heap[call[2].value]

-----------------------------------------------------------------------------
(* Properties of the merge of one mapping and of regrouped merges *)

\* C27: mergeObjects(a) with a single argument equals object(a): a new
\* null-rooted mapping that holds exactly the own enumerable properties of
\* a, string-keyed and symbol-keyed, with the same values.
C27_MergeOfOneIsObject ==
    (Returned("mergeObjects") /\ Len(call.args) = 1) =>
        LET r == object(BeforeCall, ResultAddr, call.args[1]) IN
        /\ r.ok
        /\ heap = r.heap
        /\ call.value = r.value
        /\ call.value # call.args[1]
        /\ Result.proto = NULL
        /\ EnumPairs(Result) = EnumPairs(Arg(1))
        /\ \A i \in 1..Len(Result.props) : Result.props[i].enumerable

\* the single mapping merged holds a string-keyed and a symbol-keyed
\* property, and another that is not enumerable
C27_Witness ==
    /\ Returned("mergeObjects")
    /\ Len(call.args) = 1
    /\ {"a", "@s"} \subseteq EnumKeys(Arg(1))
    /\ {"a", "@s"} \subseteq EnumKeys(Result)
    /\ \E i \in 1..Len(Arg(1).props) : ~Arg(1).props[i].enumerable

-----------------------------------------------------------------------------
(* Properties of the order of the calls made to the function of the caller *)

\* the arguments op hands the function of the caller for each of the
\* entries es, which are (key, value) pairs
HandedFor(op, es) ==
    [i \in 1..Len(es) |-> HandedTo(op, [key |-> es[i][1], value |-> es[i][2]])]

\* the number of calls f receives for the argument lists argvs: all of
\* them, or those up to the first for which f raises
Visited(f, argvs) ==
    LET failing == {i \in 1..Len(argvs) : ~UserFn(f, argvs[i]).ok} IN
    IF failing = {} THEN Len(argvs) ELSE CHOOSE i \in failing : \A j \in failing : i <= j

\* C28: during one call of a mapObject, filterObject or exclude function, of
\* filter or of forEach, the function of the caller is called once for each
\* own enumerable string-keyed entry of the input, in the order of
\* entries(m), with the key and the value the entry had when the call
\* started, also when the function changes the mapping; a function that
\* raises is called for no later entry.
C28_OncePerEntryInOrder ==
    [][(pc = "idle" /\ pc' = "done" /\ call'.op \in CallbackOps) =>
          LET argvs == HandedFor(call'.op, entries(heap, input[1]).value) IN
          log' = [i \in 1..Visited(call'.f, argvs) |->
                     CallEntry(call'.f, UNDEFINED, argvs[i])]]_vars

\* forEach was given a function that stores in the mapping at b; the call
\* for the entry b, made after the call for a, received the value b had
\* when forEach was called
C28_Witness ==
    /\ pc = "done"
    /\ call.op = "forEach"
    /\ call.f = "firstChangingB"
    /\ Len(log) = 2
    /\ log[1].args[2] = "a"
    /\ log[2].args = <<"v2", "b">>
    /\ OwnValue(Arg(1), "b") = "changed"

\* mergeObjects(x, y) with the heap it leaves, placed at the address t
Merged2(h, t, x, y) == mergeObjects(h, t, <<x, y>>)

\* C29: mergeObjects can be regrouped: mergeObjects(a, b, c) has the keys,
\* the values and the key order of mergeObjects(mergeObjects(a, b), c) and
\* of mergeObjects(a, mergeObjects(b, c)), as merge has where the function
\* mergeFn returns merges a mapping into those merged beforehand; and
\* mergeObjects(a, a) equals mergeObjects(a).
C29_MergeRegroups ==
    /\ (Returned("mergeObjects") /\ Len(call.args) = 3) =>
          LET a == call.args[1]
              b == call.args[2]
              c == call.args[3]
              left == Merged2(Merged2(BeforeCall, TempAddr, a, b).heap, MergedAddr, TempAddr, c)
              right == Merged2(Merged2(BeforeCall, TempAddr, b, c).heap, MergedAddr, a, TempAddr)
          IN /\ left.ok /\ right.ok
             /\ left.heap[MergedAddr] = Result
             /\ right.heap[MergedAddr] = Result
    /\ (Returned("mergeObjects") /\ Len(call.args) = 1) =>
          Merged2(BeforeCall, TempAddr, call.args[1], call.args[1]).heap[TempAddr] = Result
    /\ Returned("mergeFn()") =>
          mergeObjects(BeforeCall, TempAddr, Tail(input) \o <<input[1]>>).heap[TempAddr] = Result

\* three mappings were merged that all hold "a", the second brings a key
\* before "a" and the third one after it
C29_Witness ==
    /\ Returned("mergeObjects")
    /\ Len(call.args) = 3
    /\ KeysOf(EnumProps(Arg(1))) = <<"a">>
    /\ KeysOf(EnumProps(Arg(2))) = <<"b", "a">>
    /\ KeysOf(EnumProps(Arg(3))) = <<"a", "@s">>
    /\ KeysOf(Result.props) = <<"a", "b", "@s">>
    /\ OwnValue(Result, "a") = "v3"
    /\ OwnValue(Result, "b") = "v2"

-----------------------------------------------------------------------------
(* Properties of the calls made with no mapping *)

\* the result of call is a new mapping with no property and no prototype
EmptyNullRooted ==
    /\ call.value = ResultAddr
    /\ Result = PlainObj(NULL, <<>>)
    /\ \A a \in DOMAIN BeforeCall : \A k \in AllKeys : Get(heap, a, k) # ResultAddr

\* C30: mergeObjects() with no argument and record() with no argument
\* return an empty null-rooted mapping, and the function mergeObjectsFn()
\* returns with no mapping pre-supplied maps every m to object(m).
C30_NoArgument ==
    /\ (Returned("mergeObjects") /\ call.args = <<>>) => EmptyNullRooted
    /\ (pc = "done" /\ call.op = "mergeObjects" /\ call.args = <<>>) => call.ok
    /\ (pc = "done" /\ call.op = "record" /\ call.args = <<UNDEFINED>>) =>
          call.ok /\ EmptyNullRooted
    /\ (pc = "done" /\ call.op = "mergeObjectsFn()" /\ Len(call.args) = 1) =>
          LET r == object(BeforeCall, ResultAddr, call.args[1]) IN
          /\ call.ok = r.ok
          /\ call.value = r.value
          /\ heap = r.heap

\* mergeObjects() was called by a caller that holds a mapping with
\* properties, and returned
C30_Witness ==
    /\ Returned("mergeObjects")
    /\ call.args = <<>>
    /\ EnumKeys(heap[input[1]]) # {}
    /\ Result.props = <<>>

====
